---------------------------- MODULE Spec2Model ----------------------------
(***************************************************************************)
(* Model of the moderation core of the bot:                                *)
(*   cogs/automod.py   UserWarnings, SpamTracker, AutoMod                  *)
(*   cogs/antiraid.py  RaidTracker, AntiRaid                               *)
(* Every handler is cut at its awaits: one action per stretch of code that *)
(* runs without suspension under the cooperative (asyncio) scheduler.      *)
(* Time is in seconds.                                                     *)
(***************************************************************************)
EXTENDS Integers, Sequences, FiniteSets, TLC

(***************************************************************************)
(* Bounds of the model.                                                    *)
(***************************************************************************)
MaxMessages == 9        \* message events per member in Spec
MaxCommands == 1        \* manual warn / clear commands in Spec
MaxPunishTicks == 1     \* spam windows that elapse in Spec
MaxTasks == 2           \* _handle_spam coroutines in flight
MaxExemptMessages == 5  \* message events per member in SpecExempt
MaxExemptCommands == 1  \* manual warn commands in SpecExempt
MaxCalls == 4           \* add_message calls per member in SpecTracker
MaxTrackerClock == 12   \* seconds that elapse in SpecTracker
MaxWarningOps == 4      \* UserWarnings calls in SpecWarnings
MaxWarningsClock == 1   \* seconds that elapse in SpecWarnings
MaxJoinTasks == 2       \* on_member_join coroutines in flight
MaxJoins == 11          \* join events per guild in SpecRaid
MaxToggles == 1         \* lockdown commands in SpecRaid
MaxRaidClock == 60      \* seconds that elapse in SpecRaid
MaxSuspicious == 2      \* suspicious joins on the list in SpecRaid
MaxLockdownSlack == 2   \* seconds around each mark at which SpecLockdown looks
MaxLockdownToggles == 2 \* lockdown commands in SpecLockdown
MaxCfgOps == 3          \* GuildConfig calls in SpecConfig
MaxJoinEvents == 4      \* join events per guild in SpecJoin
MaxToggleJoins == 2     \* join events per guild in SpecToggle
MaxToggleCommands == 2  \* lockdown commands in SpecToggle
MaxSpamMessages == 9    \* message events per member in SpecSpam
MaxRejoins == 2         \* rejoins of a kicked member in SpecRejoin
MaxMarkerMessages == 4  \* message events per member in SpecMarker
MaxCooldownJoins == 20  \* join events per guild in SpecCooldown
MaxCooldownClock == 60  \* seconds that elapse in SpecCooldown while no response sleeps
MaxRestartOps == 5      \* UserWarnings calls and restarts in SpecRestart
MaxTallyCalls == 3      \* add_message calls per member in SpecTally
MaxTallyClock == 12     \* seconds that elapse in SpecTally
MaxWindowJoins == 3     \* record_join calls per guild in SpecJoinWindow
MaxWindowClock == 80    \* seconds that elapse in SpecJoinWindow
MaxSetPathOps == 3      \* GuildConfig calls in SpecSetPath
MaxPerKeyMessages == 3  \* message events per member and guild in SpecPerKey
MaxPerKeyJoins == 10    \* join events per guild in SpecPerKey
MaxPerKeyClock == 60    \* seconds that elapse in SpecPerKey
MaxRejectedJoins == 10  \* join events per guild in SpecRejected
MaxRejectedSuspicious == 1 \* suspicious joins on the list in SpecRejected
MaxNotifyJoins == 11    \* join events per guild in SpecNotify
MaxNotifyClock == 60    \* seconds that elapse in SpecNotify beyond the sleeps
MaxCommandJoins == 10   \* join events per guild in SpecKickCommand
MaxCommandSuspicious == 2 \* suspicious joins on the list in SpecKickCommand
MaxResponseJoins == 12  \* join events per guild in SpecResponse
MaxResponseSuspicious == 2 \* suspicious joins on the list in SpecResponse

Guilds == {1, 2}

\* the guild of the specifications that follow a single guild
HomeGuilds == {1}

Users == {1, 2}

(***************************************************************************)
(* Program constants: AutoMod.DEFAULT_CONFIG and SpamTracker.              *)
(***************************************************************************)
MAX_CONTENT_LENGTH == 100
spam_threshold == 5
spam_window_seconds == 10
duplicate_threshold == 3
warnings_for_kick == 3
warnings_for_ban == 5
exempt_roles == {"Admin", "Moderator"}

VARIABLES
    now,            \* datetime.now(timezone.utc), in seconds
    warnings,       \* UserWarnings._warnings[guild]: user -> list of timestamps (keys as present in the dict)
    wLoaded,        \* the guild keys present in UserWarnings._warnings
    disk,           \* data/warnings/<guild>_warnings.json: NoFile or the JSON document
    messages,       \* SpamTracker._messages[guild][user]
    contentCache,   \* SpamTracker._content_cache[guild][user]: normalized content -> count
    processing,     \* AutoMod._processing: set of (guild id, member id)
    spamTask,       \* the _handle_spam coroutines in flight, each at its await
    everNonExempt,  \* history: keys that sent a message or were warned while not exempt
    punished,       \* history: per key, the number of punitive actions so far and the last one
    tainted,        \* history: keys with a manual warn or clear, or a failed platform action
    sincePunish,    \* history: per key, messages recorded after the last punitive action (-1: none yet)
    allCalls,       \* history: per key, the time of every add_message call
    tallied,        \* history: per key, content as sent -> add_message calls since the tally was reset
    lastRet,        \* history: per key, the last value add_message returned
    lastClear,      \* history: the last clear_warnings call and what it returned
    nMessages,      \* per key, the number of message events so far (bounded)
    nCommands,      \* number of command / rejoin events so far (bounded)
    joins,          \* RaidTracker._joins[guild]: list of join timestamps
    suspicious,     \* RaidTracker._suspicious[guild]: list of member ids
    lockdown,       \* RaidTracker._lockdown[guild]
    lockdownUntil,  \* RaidTracker._lockdown_until[guild]: <<>> for None, else <<end time>>
    responding,     \* AntiRaid._responding_to_raid: set of guild ids
    joinTask,       \* the on_member_join coroutines in flight, each at its await
    config,         \* AntiRaid._config: auto_lockdown, kick_suspicious_on_raid, alert_owners
    raidStarts,     \* history: per guild, the raid responses started so far
    releases,       \* history: per guild, the removals of the debounce marker so far
    lastRaidCheck,  \* history: per guild, the last evaluation of the raid threshold
    lastSet,        \* history: per guild, the last set_lockdown call
    lastLockCheck,  \* history: per guild, the last is_locked_down call since then
    nJoins,         \* per guild, the number of join events so far (bounded)
    recorded,       \* history: per guild, the time of every record_join so far
    lastJoins,      \* history: per guild, the last get_recent_joins call and the joins then in its window
    nToggles,       \* number of lockdown commands so far (bounded)
    gcCache,        \* GuildConfig._cache: per guild, absent or the configuration
    gcDisk,         \* data/guilds/<guild>.json: per guild, the state of the file
    lastCfgSet,     \* history: the last GuildConfig.set call and what followed from it
    nCfgOps         \* number of GuildConfig calls so far (bounded)

automodVars == <<warnings, wLoaded, disk, messages, contentCache, processing, spamTask,
                 everNonExempt, punished, tainted, sincePunish, allCalls, tallied,
                 lastRet, lastClear, nMessages, nCommands>>

raidVars == <<joins, suspicious, lockdown, lockdownUntil, responding, joinTask, config,
              raidStarts, releases, lastRaidCheck, lastJoins, lastSet, lastLockCheck, nJoins, recorded, nToggles>>

cfgVars == <<gcCache, gcDisk, lastCfgSet, nCfgOps>>

vars == <<now, automodVars, raidVars, cfgVars>>

Keys == Guilds \X Users

(***************************************************************************)
(* Message contents: sequences of characters.                              *)
(***************************************************************************)
Repeat(c, n) == [i \in 1..n |-> c]

Contents ==
    { <<"h", "i">>,
      <<"H", "I", " ">>,
      <<"y", "o">>,
      Repeat("a", MAX_CONTENT_LENGTH) \o <<"x">>,
      Repeat("a", MAX_CONTENT_LENGTH) \o <<"y">> }

UpperCase ==
    <<"A", "B", "C", "D", "E", "F", "G", "H", "I", "J", "K", "L", "M",
      "N", "O", "P", "Q", "R", "S", "T", "U", "V", "W", "X", "Y", "Z">>

LowerCase ==
    <<"a", "b", "c", "d", "e", "f", "g", "h", "i", "j", "k", "l", "m",
      "n", "o", "p", "q", "r", "s", "t", "u", "v", "w", "x", "y", "z">>

LowerChar(c) ==
    IF \E i \in DOMAIN UpperCase : UpperCase[i] = c
    THEN LowerCase[CHOOSE i \in DOMAIN UpperCase : UpperCase[i] = c]
    ELSE c

Lower(s) == [i \in 1..Len(s) |-> LowerChar(s[i])]

IsSpace(c) == c = " "

RECURSIVE LStrip(_)
LStrip(s) == IF s # <<>> /\ IsSpace(Head(s)) THEN LStrip(Tail(s)) ELSE s

RECURSIVE RStrip(_)
RStrip(s) ==
    IF s # <<>> /\ IsSpace(s[Len(s)]) THEN RStrip(SubSeq(s, 1, Len(s) - 1)) ELSE s

Strip(s) == RStrip(LStrip(s))

Truncate(s, n) == IF Len(s) > n THEN SubSeq(s, 1, n) ELSE s

\* Mutant of Normalize: the surrounding whitespace is kept
Normalize_NoStrip(content) == Truncate(Lower(content), MAX_CONTENT_LENGTH)

\* content.lower().strip()[:self.MAX_CONTENT_LENGTH]
Normalize(content) == Truncate(Strip(Lower(content)), MAX_CONTENT_LENGTH)

NormContents == { Normalize(c) : c \in Contents }

(***************************************************************************)
(* Members as the gateway delivers them with an event.                     *)
(***************************************************************************)
ModPerms == {"administrator", "manage_messages", "kick_members", "ban_members"}

Profile(bot, owner, roles, perms) ==
    [bot |-> bot, owner |-> owner, roles |-> roles, perms |-> perms]

Profiles ==
    { Profile(FALSE, FALSE, {}, {}),
      Profile(FALSE, FALSE, {"Member"}, {"send_messages"}),
      Profile(TRUE, FALSE, {}, {}),
      Profile(FALSE, TRUE, {}, {}),
      Profile(FALSE, FALSE, {"Admin"}, {}),
      Profile(FALSE, FALSE, {"Member", "Moderator"}, {}),
      Profile(FALSE, FALSE, {}, {"administrator"}),
      Profile(FALSE, FALSE, {}, {"manage_messages"}),
      Profile(FALSE, FALSE, {}, {"kick_members"}),
      Profile(FALSE, FALSE, {}, {"ban_members", "send_messages"}) }

\* Mutant of IsExempt: the kick_members and ban_members permissions are not looked at
IsExempt_NoKickBan(member) ==
    \/ member.bot
    \/ member.owner
    \/ member.roles \cap exempt_roles # {}
    \/ "administrator" \in member.perms
    \/ "manage_messages" \in member.perms

\* AutoMod._is_exempt; member.id == member.guild.owner_id is the profile's owner field
IsExempt(member) ==
    \/ member.bot
    \/ member.owner
    \/ member.roles \cap exempt_roles # {}
    \/ "administrator" \in member.perms
    \/ "manage_messages" \in member.perms
    \/ "kick_members" \in member.perms
    \/ "ban_members" \in member.perms


\* The claim's notion of an exempt actor (bot, owner, exempt role, moderation permission)
ExemptActor(member) ==
    \/ member.bot
    \/ member.owner
    \/ \E r \in member.roles : r \in {"Admin", "Moderator"}
    \/ \E q \in member.perms : q \in ModPerms

(***************************************************************************)
(* UserWarnings: the in-memory dict and one JSON file per guild.           *)
(***************************************************************************)
StrKey(user_id) == <<"str", user_id>>      \* str(user_id)
IntKey(user_id_str) == user_id_str[2]      \* int(user_id_str)
IsoFormat(ts) == <<"iso", ts>>             \* ts.isoformat()
FromIsoFormat(s) == s[2]                   \* datetime.fromisoformat(ts)

\* what open(path, "w") followed by json.dump can do to a file
IoOutcomes == { "ok", "open_failed", "write_failed" }

NoFile == [exists |-> FALSE, valid |-> FALSE, doc |-> <<>>]
File(doc) == [exists |-> TRUE, valid |-> TRUE, doc |-> doc]
\* a file that open(path, "w") truncated and json.dump did not complete
TruncatedFile == [exists |-> TRUE, valid |-> FALSE, doc |-> <<>>]

\* Mutant of SaveDoc: only the latest warning of each member is written
SaveDoc_Latest(w) ==
    [k \in { StrKey(u) : u \in DOMAIN w } |->
        [i \in 1..(IF Len(w[IntKey(k)]) > 0 THEN 1 ELSE 0) |->
            IsoFormat(w[IntKey(k)][Len(w[IntKey(k)])])]]

\* the dict comprehension of _save_guild_warnings
SaveDoc(w) ==
    [k \in { StrKey(u) : u \in DOMAIN w } |->
        [i \in 1..Len(w[IntKey(k)]) |-> IsoFormat(w[IntKey(k)][i])]]

\* the loop of _load_guild_warnings
LoadDoc(d) ==
    [u \in { IntKey(k) : k \in DOMAIN d } |->
        [i \in 1..Len(d[StrKey(u)]) |-> FromIsoFormat(d[StrKey(u)][i])]]

\* _load_guild_warnings: what a guild has in memory after it; nothing if there is no
\* file or json.load raises
LoadGuildWarnings(file) ==
    IF file.exists /\ file.valid THEN LoadDoc(file.doc) ELSE <<>>

\* self._warnings[guild_id] after "if guild_id not in self._warnings: self._load_guild_warnings(guild_id)"
LoadedWarnings(g) ==
    IF g \in wLoaded THEN warnings[g] ELSE LoadGuildWarnings(disk[g])

\* self._warnings[guild_id][user_id] on a defaultdict(list): the read creates the key
TouchMap(w, u) ==
    [x \in DOMAIN w \cup {u} |-> IF x \in DOMAIN w THEN w[x] ELSE <<>>]

\* add_warning: self._warnings[guild_id][user_id].append(now)
AddWarningMap(w, u, t) ==
    [TouchMap(w, u) EXCEPT ![u] = Append(@, t)]

\* clear_warnings: "if user_id in self._warnings[guild_id]"
HasEntry(w, u) == u \in DOMAIN w

\* Mutant of ClearMap: the list is emptied, the key stays
ClearMap_Emptied(w, u) == [x \in DOMAIN w |-> IF x = u THEN <<>> ELSE w[x]]

\* clear_warnings: del self._warnings[guild_id][user_id]
ClearMap(w, u) == [x \in DOMAIN w \ {u} |-> w[x]]

\* len(self._warnings[guild_id][user_id]) without creating the key (for the properties)
CountOf(w, u) == IF u \in DOMAIN w THEN Len(w[u]) ELSE 0

\* _save_guild_warnings: the file is rewritten; an IOError is swallowed, raised either by
\* open (the file stays as it was) or by the write (the file was truncated by open)
Saved(g, w, io) ==
    CASE io = "ok" -> [disk EXCEPT ![g] = File(SaveDoc(w))]
      [] io = "open_failed" -> disk
      [] io = "write_failed" -> [disk EXCEPT ![g] = TruncatedFile]

\* add_warning(guild_id, user_id): load, append, save
AddWarning(g, u, io) ==
    LET w1 == AddWarningMap(LoadedWarnings(g), u, now)
    IN  /\ warnings' = [warnings EXCEPT ![g] = w1]
        /\ wLoaded' = wLoaded \cup {g}
        /\ disk' = Saved(g, w1, io)

\* the value add_warning returns
AddWarningResult(g, u) == Len(AddWarningMap(LoadedWarnings(g), u, now)[u])

\* get_warning_count / get_recent_warnings(guild_id, user_id): load, read
GetWarningCount(g, u) ==
    /\ warnings' = [warnings EXCEPT ![g] = TouchMap(LoadedWarnings(g), u)]
    /\ wLoaded' = wLoaded \cup {g}
    /\ UNCHANGED disk

\* clear_warnings(guild_id, user_id): load, delete and save when the key is present
ClearWarnings(g, u, io) ==
    LET w0 == LoadedWarnings(g)
    IN  /\ wLoaded' = wLoaded \cup {g}
        /\ IF HasEntry(w0, u)
           THEN /\ warnings' = [warnings EXCEPT ![g] = ClearMap(w0, u)]
                /\ disk' = Saved(g, ClearMap(w0, u), io)
           ELSE /\ warnings' = [warnings EXCEPT ![g] = w0]
                /\ UNCHANGED disk

\* the value clear_warnings returns
ClearWarningsResult(g, u) == HasEntry(LoadedWarnings(g), u)

(***************************************************************************)
(* SpamTracker.                                                            *)
(***************************************************************************)
\* Mutant of PruneWindow: a timestamp exactly window_seconds old is kept
PruneWindow_Inclusive(ts, t, window_seconds) ==
    SelectSeq(ts, LAMBDA x : x >= t - window_seconds)

\* [ts for ts in self._messages[guild_id][user_id] if ts > cutoff]
PruneWindow(ts, t, window_seconds) ==
    SelectSeq(ts, LAMBDA x : x > t - window_seconds)

\* add_message: the new self._messages[guild_id][user_id]
AddMessageList(ts, t, window_seconds) ==
    Append(PruneWindow(ts, t, window_seconds), t)

\* add_message: self._content_cache[guild_id][user_id][content_hash] += 1
AddMessageCache(cache, content) ==
    LET content_hash == Normalize(content)
    IN  [x \in DOMAIN cache \cup {content_hash} |->
            IF x = content_hash
            THEN (IF x \in DOMAIN cache THEN cache[x] ELSE 0) + 1
            ELSE cache[x]]

\* reset_content_cache: self._content_cache[guild_id][user_id].clear()
EmptyCache == <<>>

\* one more call with this content, as sent
CountCall(calls, content) ==
    [x \in DOMAIN calls \cup {content} |->
        IF x = content THEN (IF x \in DOMAIN calls THEN calls[x] ELSE 0) + 1 ELSE calls[x]]

\* add_message(guild_id, user_id, content, window_seconds); lastRet is what it returns
AddMessage(g, u, content, window_seconds) ==
    LET msgs1 == AddMessageList(messages[g][u], now, window_seconds)
        cache1 == AddMessageCache(contentCache[g][u], content)
    IN  /\ messages' = [messages EXCEPT ![g][u] = msgs1]
        /\ contentCache' = [contentCache EXCEPT ![g][u] = cache1]
        /\ lastRet' = [lastRet EXCEPT ![g][u] = <<Len(msgs1), cache1[Normalize(content)]>>]
        /\ allCalls' = [allCalls EXCEPT ![g][u] = Append(@, now)]
        /\ tallied' = [tallied EXCEPT ![g][u] = CountCall(@, content)]

\* Mutant of ResetContentCache: the tally is left as it is
ResetContentCache_Keep(cache) == cache

\* reset_content_cache: self._content_cache[guild_id][user_id].clear()
ResetContentCache(cache) == EmptyCache


(***************************************************************************)
(* AutoMod: on_message and _handle_spam.                                   *)
(***************************************************************************)
IdleTask == [pc |-> "idle", g |-> 0, u |-> 0, count |-> 0, anew |-> TRUE,
             deleted |-> TRUE, prior |-> 0, reasons |-> <<>>, counts |-> <<0, 0>>]

Tasks == 1..MaxTasks

FreeTasks == { t \in Tasks : spamTask[t].pc = "idle" }

\* Mutant of IsSpam: identical messages are not looked at
IsSpam_CountOnly(msg_count, dup_count) == msg_count >= spam_threshold

\* on_message: "if msg_count >= spam_threshold ... elif dup_count >= duplicate_threshold"
IsSpam(msg_count, dup_count) ==
    msg_count >= spam_threshold \/ dup_count >= duplicate_threshold

\* Mutant of SpamReasons: two independent tests, each with its _handle_spam call
SpamReasons_Both(msg_count, dup_count) ==
    (IF msg_count >= spam_threshold THEN <<"Message spam">> ELSE <<>>)
        \o (IF dup_count >= duplicate_threshold THEN <<"Duplicate message spam">> ELSE <<>>)

\* on_message: the _handle_spam calls of one message, by their reason: "if msg_count >=
\* spam_threshold: ... elif dup_count >= duplicate_threshold: ..."
SpamReasons(msg_count, dup_count) ==
    IF msg_count >= spam_threshold THEN <<"Message spam">>
    ELSE IF dup_count >= duplicate_threshold THEN <<"Duplicate message spam">>
    ELSE <<>>

\* Mutant of AlreadyProcessing: one marker for all members and guilds
AlreadyProcessing_Global(key) == processing # {}

\* Mutant of AlreadyProcessing: the marker is never consulted
AlreadyProcessing_Never(key) == FALSE

\* _handle_spam: "if processing_key in self._processing: return"
AlreadyProcessing(key) == key \in processing

\* Mutant of Punishment: the thresholds compared with > instead of >=
Punishment_Strict(warning_count) ==
    IF warning_count > warnings_for_ban THEN "ban"
    ELSE IF warning_count > warnings_for_kick THEN "kick"
    ELSE "timeout"

\* Mutant of Punishment: the branch chosen from the count before the new warning
Punishment_BeforeWarning(warning_count) ==
    IF warning_count - 1 >= warnings_for_ban THEN "ban"
    ELSE IF warning_count - 1 >= warnings_for_kick THEN "kick"
    ELSE "timeout"

\* _handle_spam: the branch chosen from the count add_warning returned
Punishment(warning_count) ==
    IF warning_count >= warnings_for_ban THEN "ban"
    ELSE IF warning_count >= warnings_for_kick THEN "kick"
    ELSE "timeout"

\* Mutant of ClearsAfterBan: the warnings are cleared whether or not the ban succeeded
ClearsAfterBan_Always(kind, ok) == kind = "ban"

\* Mutant of ClearsAfterBan: a kick clears the warnings as a ban does
ClearsAfterBan_KickToo(kind, ok) == kind \in {"ban", "kick"} /\ ok

\* _handle_spam, ban branch: clear_warnings follows the awaited ban inside the try
ClearsAfterBan(kind, ok) == kind = "ban" /\ ok

Bump(n) == IF n < 0 THEN n ELSE IF n < spam_threshold THEN n + 1 ELSE n

NoPunishment == [kind |-> "none", ok |-> TRUE, count |-> 0, before |-> 0, after |-> 0,
                 deleted |-> TRUE, prior |-> 0, reset |-> TRUE]

\* on_message up to the first await of _handle_spam (message.delete())
OnMessage(g, u, member, content) ==
    /\ UNCHANGED <<raidVars, cfgVars>>
    /\ nMessages' = [nMessages EXCEPT ![g][u] = @ + 1]
    /\ everNonExempt' = IF ExemptActor(member) THEN everNonExempt
                        ELSE everNonExempt \cup {<<g, u>>}
    /\ UNCHANGED <<now, warnings, wLoaded, disk, punished, tainted, lastClear, nCommands>>
    /\ IF IsExempt(member)
       THEN UNCHANGED <<messages, contentCache, processing, spamTask, sincePunish,
                        allCalls, tallied, lastRet>>
       ELSE LET msg_count == lastRet'[g][u][1]
                dup_count == lastRet'[g][u][2]
                since1 == Bump(sincePunish[g][u])
            IN  /\ AddMessage(g, u, content, spam_window_seconds)
                /\ sincePunish' = [sincePunish EXCEPT ![g][u] = since1]
                /\ IF IsSpam(msg_count, dup_count) /\ ~AlreadyProcessing(<<g, u>>)
                   THEN /\ FreeTasks # {}
                        /\ LET t == CHOOSE x \in FreeTasks : \A y \in FreeTasks : x <= y
                           IN  spamTask' = [spamTask EXCEPT ![t] =
                                   [pc |-> "delete", g |-> g, u |-> u, count |-> 0,
                                    anew |-> \/ since1 < 0
                                             \/ since1 >= spam_threshold
                                             \/ dup_count >= duplicate_threshold,
                                    deleted |-> TRUE, prior |-> 0,
                                    reasons |-> SpamReasons(msg_count, dup_count),
                                    counts |-> <<msg_count, dup_count>>]]
                        /\ processing' = processing \cup {<<g, u>>}
                   ELSE UNCHANGED <<processing, spamTask>>

\* _handle_spam from the return of message.delete() (deleted, or HTTPException and
\* "pass": both continue) through add_warning to the awaited ban / kick / timeout
DeleteDone(t, deleted, io) ==
    /\ UNCHANGED <<raidVars, cfgVars>>
    /\ spamTask[t].pc = "delete"
    /\ LET g == spamTask[t].g
           u == spamTask[t].u
           warning_count == AddWarningResult(g, u)
       IN  /\ AddWarning(g, u, io)
           /\ spamTask' = [spamTask EXCEPT ![t].pc = Punishment(warning_count),
                                           ![t].count = warning_count,
                                           ![t].deleted = deleted,
                                           ![t].prior = CountOf(LoadedWarnings(g), u)]
    /\ UNCHANGED <<now, messages, contentCache, processing, everNonExempt, punished,
                   tainted, sincePunish, allCalls, tallied, lastRet, lastClear, nMessages, nCommands>>

\* _handle_spam from the return of the awaited ban / kick / timeout (ok, or Forbidden /
\* HTTPException caught) through reset_content_cache to the awaited _send_log
ActionDone(t, ok, io) ==
    /\ UNCHANGED <<raidVars, cfgVars>>
    /\ spamTask[t].pc \in {"ban", "kick", "timeout"}
    /\ LET g == spamTask[t].g
           u == spamTask[t].u
           kind == spamTask[t].pc
           before == CountOf(LoadedWarnings(g), u)
       IN  /\ IF ClearsAfterBan(kind, ok)
              THEN ClearWarnings(g, u, io)
              ELSE UNCHANGED <<warnings, wLoaded, disk>>
           /\ contentCache' = [contentCache EXCEPT ![g][u] = ResetContentCache(@)]
           /\ punished' = [punished EXCEPT ![g][u] =
                  [n |-> @.n + 1,
                   last |-> [kind |-> kind, ok |-> ok, count |-> spamTask[t].count,
                             before |-> before, after |-> CountOf(warnings'[g], u),
                             deleted |-> spamTask[t].deleted, prior |-> spamTask[t].prior,
                             reset |-> contentCache'[g][u] = EmptyCache]]]
           /\ tainted' = IF ok THEN tainted ELSE tainted \cup {<<g, u>>}
           /\ sincePunish' = [sincePunish EXCEPT ![g][u] = 0]
           /\ tallied' = [tallied EXCEPT ![g][u] = <<>>]
           /\ spamTask' = [spamTask EXCEPT ![t].pc = "log"]
    /\ UNCHANGED <<now, messages, processing, everNonExempt, allCalls, lastRet,
                   lastClear, nMessages, nCommands>>

\* Mutant of Discard: the key stays in the set
Discard_Forgets(set, key) == set

\* "finally: self._processing.discard(processing_key)"
Discard(set, key) == set \ {key}

\* _handle_spam from the return of _send_log (which swallows its HTTPException) to the
\* end: "finally: self._processing.discard(processing_key)"
LogDone(t) ==
    /\ UNCHANGED <<raidVars, cfgVars>>
    /\ spamTask[t].pc = "log"
    /\ processing' = Discard(processing, <<spamTask[t].g, spamTask[t].u>>)
    /\ spamTask' = [spamTask EXCEPT ![t] = IdleTask]
    /\ UNCHANGED <<now, warnings, wLoaded, disk, messages, contentCache, everNonExempt,
                   punished, tainted, sincePunish, allCalls, tallied, lastRet, lastClear,
                   nMessages, nCommands>>

\* _handle_spam when an awaited call raises something that no except clause of the
\* method names (not an HTTPException): the exception leaves the try through
\* "finally: self._processing.discard(processing_key)" and ends the handler
TransitionRaised(t) ==
    /\ UNCHANGED <<raidVars, cfgVars>>
    /\ spamTask[t].pc \in {"delete", "ban", "kick", "timeout", "log"}
    /\ processing' = Discard(processing, <<spamTask[t].g, spamTask[t].u>>)
    /\ spamTask' = [spamTask EXCEPT ![t] = IdleTask]
    /\ UNCHANGED <<now, warnings, wLoaded, disk, messages, contentCache, everNonExempt,
                   punished, tainted, sincePunish, allCalls, tallied, lastRet, lastClear,
                   nMessages, nCommands>>

(***************************************************************************)
(* AutoMod: the commands and the rejoin check.                             *)
(***************************************************************************)
\* manual_warn: hierarchy check, exemption check, add_warning (before its first await
\* on the paths that add a warning)
ManualWarn(g, u, member, hierarchyOk, io) ==
    /\ UNCHANGED <<raidVars, cfgVars>>
    /\ nCommands' = nCommands + 1
    /\ IF hierarchyOk /\ ~IsExempt(member)
       THEN /\ AddWarning(g, u, io)
            /\ tainted' = tainted \cup {<<g, u>>}
       ELSE UNCHANGED <<warnings, wLoaded, disk, tainted>>
    /\ everNonExempt' = IF ExemptActor(member) THEN everNonExempt
                        ELSE everNonExempt \cup {<<g, u>>}
    /\ UNCHANGED <<now, messages, contentCache, processing, spamTask, punished,
                   sincePunish, allCalls, tallied, lastRet, lastClear, nMessages>>

\* clear_user_warnings: clear_warnings is called before the first await
ClearUserWarnings(g, u, io) ==
    /\ UNCHANGED <<raidVars, cfgVars>>
    /\ nCommands' = nCommands + 1
    /\ ClearWarnings(g, u, io)
    /\ lastClear' = [called |-> TRUE, g |-> g, u |-> u,
                     before |-> CountOf(LoadedWarnings(g), u),
                     result |-> ClearWarningsResult(g, u),
                     inMemory |-> HasEntry(warnings'[g], u),
                     onDisk |-> StrKey(u) \in DOMAIN disk'[g].doc,
                     after |-> CountOf(warnings'[g], u),
                     saved |-> io = "ok",
                     diskSame |-> disk'[g] = disk[g],
                     diskTruncated |-> disk'[g] = TruncatedFile,
                     othersSame |-> \A v \in Users \ {u} :
                         /\ HasEntry(warnings'[g], v) = HasEntry(LoadedWarnings(g), v)
                         /\ HasEntry(warnings'[g], v) =>
                                warnings'[g][v] = LoadedWarnings(g)[v]]
    /\ tainted' = tainted \cup {<<g, u>>}
    /\ UNCHANGED <<now, messages, contentCache, processing, spamTask, everNonExempt,
                   punished, sincePunish, allCalls, tallied, lastRet, nMessages>>

\* check_warnings (get_warning_count, get_recent_warnings) and on_member_join of a
\* member that is not a bot (get_warning_count): both only read the count
ReadWarnings(g, u) ==
    /\ UNCHANGED <<raidVars, cfgVars>>
    /\ nCommands' = nCommands + 1
    /\ GetWarningCount(g, u)
    /\ UNCHANGED <<now, messages, contentCache, processing, spamTask, everNonExempt,
                   punished, tainted, sincePunish, allCalls, tallied, lastRet, lastClear, nMessages>>

\* on_member_join: "if warning_count >= warnings_for_kick", the advisory log
RejoinAdvisory(warning_count) == warning_count >= warnings_for_kick

\* on_member_join (AutoMod): a bot returns at once, any other member has its count
\* read; the advisory _send_log that may follow changes nothing
MemberRejoin(g, u, bot) ==
    /\ UNCHANGED <<raidVars, cfgVars>>
    /\ nCommands' = nCommands + 1
    /\ IF bot THEN UNCHANGED <<warnings, wLoaded, disk>> ELSE GetWarningCount(g, u)
    /\ UNCHANGED <<now, messages, contentCache, processing, spamTask, everNonExempt,
                   punished, tainted, sincePunish, allCalls, tallied, lastRet, lastClear, nMessages>>

\* a new process: UserWarnings.__init__ starts with an empty dict, the files remain
WarningsRestart ==
    /\ warnings' = [g \in Guilds |-> <<>>]
    /\ wLoaded' = {}
    /\ nCommands' = nCommands + 1
    /\ UNCHANGED <<raidVars, cfgVars>>
    /\ UNCHANGED <<now, disk, messages, contentCache, processing, spamTask, everNonExempt,
                   punished, tainted, sincePunish, allCalls, tallied, lastRet, lastClear, nMessages>>

(***************************************************************************)
(* RaidTracker: joins, suspicious members and the lockdown flag per guild. *)
(***************************************************************************)
join_threshold == 10

join_window_seconds == 60

min_account_age_days == 7

lockdown_duration_minutes == 30

\* _handle_raid_detection: "finally: await asyncio.sleep(60)"
RaidCooldownSeconds == 60

\* raid_status: "get_recent_joins(guild.id, 60)"
RaidStatusWindow == 60

\* Mutant of RecordJoin: the join is not stored
RecordJoin_NotStored(js, t) == js

\* record_join: "self._joins[guild_id].append(now)"
RecordJoin(js, t) == Append(js, t)

\* record_join: "if is_suspicious: self._suspicious[guild_id].append(member_id)"
RecordSuspicious(ids, member_id, is_suspicious) ==
    IF is_suspicious THEN Append(ids, member_id) ELSE ids

\* get_recent_joins: "[ts for ts in self._joins[guild_id] if ts > cutoff]"
RecentJoins(js, t, seconds) == SelectSeq(js, LAMBDA ts : ts > t - seconds)

\* the joins among rec recorded less than seconds before t
JoinsWithin(rec, t, seconds) == Cardinality({ i \in 1..Len(rec) : rec[i] > t - seconds })

NoJoinQuery == [called |-> FALSE, seconds |-> 0, count |-> 0, within |-> 0]

\* get_recent_joins: "return len(self._joins[guild_id])", with the joins recorded in
\* the window of the call
JoinQuery(js, rec, t, seconds) ==
    [called |-> TRUE, seconds |-> seconds, count |-> Len(RecentJoins(js, t, seconds)),
     within |-> JoinsWithin(rec, t, seconds)]

\* Optional[datetime] and Optional[int]: None is the empty sequence
None == <<>>

Some(x) == <<x>>

\* the lockdown flag of a guild together with its end time
Lock(g) == [on |-> lockdown[g], until |-> lockdownUntil[g]]

\* Mutant of LockdownEnd: the duration taken as seconds
LockdownEnd_Seconds(t, duration_minutes) == t + duration_minutes

\* set_lockdown: "datetime.now(timezone.utc) + timedelta(minutes=duration_minutes)"
LockdownEnd(t, duration_minutes) == t + 60 * duration_minutes

\* Mutant of SetLockdown: the flag is only ever raised
SetLockdown_EnableOnly(enabled, duration_minutes, t) ==
    [on |-> TRUE,
     until |-> IF enabled /\ duration_minutes # None /\ duration_minutes[1] # 0
               THEN Some(LockdownEnd(t, duration_minutes[1]))
               ELSE None]

\* set_lockdown: the flag and the end time it stores; "if enabled and duration_minutes"
\* is false for None and for 0 alike
SetLockdown(enabled, duration_minutes, t) ==
    [on |-> enabled,
     until |-> IF enabled /\ duration_minutes # None /\ duration_minutes[1] # 0
               THEN Some(LockdownEnd(t, duration_minutes[1]))
               ELSE None]

\* is_locked_down: "if self._lockdown_until[guild_id]: if now > self._lockdown_until[...]"
Expired(lk, t) == lk.until # None /\ t > lk.until[1]

\* is_locked_down: the value returned
IsLockedDown(lk, t) == lk.on /\ ~Expired(lk, t)

\* Mutant of AfterIsLockedDown: the end time of the expired lockdown is left in place
AfterIsLockedDown_KeepsEnd(lk, t) ==
    IF lk.on /\ Expired(lk, t) THEN [on |-> FALSE, until |-> lk.until] ELSE lk

\* is_locked_down: the flag and the end time it leaves behind
AfterIsLockedDown(lk, t) ==
    IF lk.on /\ Expired(lk, t) THEN [on |-> FALSE, until |-> None] ELSE lk

StoreLock(g, lk) ==
    /\ lockdown' = [lockdown EXCEPT ![g] = lk.on]
    /\ lockdownUntil' = [lockdownUntil EXCEPT ![g] = lk.until]

(***************************************************************************)
(* AntiRaid: the members that join and _is_suspicious_account.             *)
(***************************************************************************)
RECURSIVE IsPrefix(_, _)
IsPrefix(p, s) ==
    IF p = <<>> THEN TRUE
    ELSE IF s = <<>> THEN FALSE
    ELSE Head(p) = Head(s) /\ IsPrefix(Tail(p), Tail(s))

\* Python's "pattern in name"
RECURSIVE Contains(_, _)
Contains(s, p) ==
    IF IsPrefix(p, s) THEN TRUE
    ELSE IF s = <<>> THEN FALSE
    ELSE Contains(Tail(s), p)

SuspiciousPatterns ==
    { <<"r", "a", "i", "d">>, <<"n", "u", "k", "e">>,
      <<"d", "e", "s", "t", "r", "o", "y">>, <<"s", "p", "a", "m">> }

\* a joining account: its age in whole days, whether it has an avatar, its name
Account(age_days, avatar, name) == [age_days |-> age_days, avatar |-> avatar, name |-> name]

Accounts ==
    { Account(30, TRUE, <<"b", "o", "b">>),
      Account(7, TRUE, <<"b", "o", "b">>),
      Account(6, TRUE, <<"b", "o", "b">>),
      Account(30, FALSE, <<"b", "o", "b">>),
      Account(30, TRUE, <<"x", "R", "a", "i", "d", "e", "r">>) }

\* Mutant of IsSuspiciousAccount: an account of exactly the minimum age is flagged
IsSuspiciousAccount_AgeInclusive(member) ==
    \/ member.age_days <= min_account_age_days
    \/ ~member.avatar
    \/ \E pattern \in SuspiciousPatterns : Contains(Lower(member.name), pattern)

\* _is_suspicious_account: len(reasons) > 0
IsSuspiciousAccount(member) ==
    \/ member.age_days < min_account_age_days
    \/ ~member.avatar
    \/ \E pattern \in SuspiciousPatterns : Contains(Lower(member.name), pattern)

(***************************************************************************)
(* AntiRaid: on_member_join and _handle_raid_detection.                    *)
(***************************************************************************)
RaidConfig(auto_lockdown, kick_suspicious_on_raid, alert_owners) ==
    [auto_lockdown |-> auto_lockdown,
     kick_suspicious_on_raid |-> kick_suspicious_on_raid,
     alert_owners |-> alert_owners]

\* DEFAULT_CONFIG
DefaultRaidConfig == RaidConfig(TRUE, FALSE, TRUE)

\* handled, notified, flagged, kicks, gone and cleared are history: the response of the
\* task has reached the handling of the suspicious members, its awaited _send_log has
\* returned, the list of suspicious ids as it was when the response left the lockdown
\* part, the ids whose member.kick it has awaited, the ids guild.get_member did not
\* find, and clear_suspicious was called; failed names the notifications of the
\* response that could not be sent, error the exception that left its try
IdleJoin == [pc |-> "idle", g |-> 0, m |-> 0, susp |-> FALSE, sawLock |-> FALSE,
             todo |-> <<>>, wake |-> 0, handled |-> FALSE, notified |-> FALSE,
             flagged |-> <<>>, kicks |-> {}, gone |-> {}, cleared |-> FALSE,
             failed |-> {}, error |-> "none"]

JoinTasks == 1..MaxJoinTasks

FreeJoinTasks == { t \in JoinTasks : joinTask[t].pc = "idle" }

LowestFreeJoinTask == CHOOSE x \in FreeJoinTasks : \A y \in FreeJoinTasks : x <= y

ResponsePcs == {"edit", "kickloop", "rlog", "alert", "sleep"}

\* the last is_locked_down of a guild: when, what it returned, whether check_lockdowns
\* made it and whether check_lockdowns went on to announce 'Lockdown Ended'
NoLockCheck == [made |-> FALSE, at |-> 0, result |-> FALSE, sweep |-> FALSE,
                announced |-> FALSE]

LockCheck(t, result) ==
    [made |-> TRUE, at |-> t, result |-> result, sweep |-> FALSE, announced |-> FALSE]

SweepCheck(t, result, announced) ==
    [made |-> TRUE, at |-> t, result |-> result, sweep |-> TRUE, announced |-> announced]

NoSet == [called |-> FALSE, at |-> 0, enabled |-> FALSE, minutes |-> None]

SetCall(t, enabled, minutes) ==
    [called |-> TRUE, at |-> t, enabled |-> enabled, minutes |-> minutes]

NoRaidCheck == [made |-> FALSE, count |-> 0, started |-> FALSE, sawLock |-> FALSE]

\* Mutant of AlreadyResponding: the debounce set is never consulted
AlreadyResponding_Never(g) == FALSE

\* _handle_raid_detection: "if guild.id in self._responding_to_raid: return"
AlreadyResponding(g) == g \in responding

\* on_member_join: "if recent_joins >= join_threshold"
ThresholdReached(recent_joins) == recent_joins >= join_threshold

\* Mutant of AfterLockdownPart: the kick loop runs whatever kick_suspicious_on_raid says
AfterLockdownPart_AlwaysKicks(task, suspicious_ids) ==
    IF suspicious_ids # <<>>
    THEN [task EXCEPT !.pc = "kickloop", !.todo = suspicious_ids, !.handled = TRUE,
                      !.flagged = suspicious_ids]
    ELSE [task EXCEPT !.pc = "rlog", !.todo = <<>>, !.handled = TRUE,
                      !.flagged = suspicious_ids]

\* _handle_raid_detection after the lockdown part: the kick loop over the copied list
\* of suspicious ids if there are any and the option is set, else straight to _send_log
AfterLockdownPart(task, suspicious_ids) ==
    IF suspicious_ids # <<>> /\ config.kick_suspicious_on_raid
    THEN [task EXCEPT !.pc = "kickloop", !.todo = suspicious_ids, !.handled = TRUE,
                      !.flagged = suspicious_ids]
    ELSE [task EXCEPT !.pc = "rlog", !.todo = <<>>, !.handled = TRUE,
                      !.flagged = suspicious_ids]

\* on_member_join from "# Check for raid" on, and _handle_raid_detection up to its
\* first await; js, ids, lk, chk are the joins, the suspicious ids, the lockdown and
\* the record of is_locked_down as the earlier part of the same step left them
RaidCheck(t, task, js, ids, lk, chk) ==
    LET g == task.g
        recent == RecentJoins(js, now, join_window_seconds)
        recent_joins == Len(recent)
        start == ThresholdReached(recent_joins) /\ ~AlreadyResponding(g)
    IN  /\ joins' = [joins EXCEPT ![g] = recent]
        /\ lastJoins' = [lastJoins EXCEPT ![g] =
               JoinQuery(js, IF js = joins[g] THEN recorded[g] ELSE RecordJoin(recorded[g], now),
                         now, join_window_seconds)]
        /\ lastRaidCheck' = [lastRaidCheck EXCEPT ![g] =
               [made |-> TRUE, count |-> recent_joins, started |-> start,
                sawLock |-> task.sawLock]]
        /\ IF start
           THEN /\ responding' = responding \cup {g}
                /\ raidStarts' = [raidStarts EXCEPT ![g] = @ + 1]
                /\ IF config.auto_lockdown
                   THEN /\ StoreLock(g, SetLockdown(TRUE, Some(lockdown_duration_minutes), now))
                        /\ lastSet' = [lastSet EXCEPT ![g] =
                               SetCall(now, TRUE, Some(lockdown_duration_minutes))]
                        /\ lastLockCheck' = [lastLockCheck EXCEPT ![g] = NoLockCheck]
                        /\ joinTask' = [joinTask EXCEPT ![t] = [task EXCEPT !.pc = "edit"]]
                   ELSE /\ StoreLock(g, lk)
                        /\ lastLockCheck' = [lastLockCheck EXCEPT ![g] = chk]
                        /\ joinTask' = [joinTask EXCEPT ![t] = AfterLockdownPart(task, ids)]
                        /\ UNCHANGED lastSet
           ELSE /\ StoreLock(g, lk)
                /\ lastLockCheck' = [lastLockCheck EXCEPT ![g] = chk]
                /\ joinTask' = [joinTask EXCEPT ![t] = IdleJoin]
                /\ UNCHANGED <<responding, raidStarts, lastSet>>

\* on_member_join up to its first await: record_join, is_locked_down, then the awaited
\* kick (lockdown), the awaited _send_log (suspicious) or the raid check
MemberJoin(g, m, member) ==
    /\ FreeJoinTasks # {}
    /\ LET t == LowestFreeJoinTask
           is_suspicious == IsSuspiciousAccount(member)
           js == RecordJoin(joins[g], now)
           ids == RecordSuspicious(suspicious[g], m, is_suspicious)
           locked == IsLockedDown(Lock(g), now)
           lk == AfterIsLockedDown(Lock(g), now)
           chk == LockCheck(now, locked)
           task == [IdleJoin EXCEPT !.g = g, !.m = m, !.susp = is_suspicious,
                                    !.sawLock = locked]
       IN  /\ suspicious' = [suspicious EXCEPT ![g] = ids]
           /\ nJoins' = [nJoins EXCEPT ![g] = @ + 1]
           /\ recorded' = [recorded EXCEPT ![g] = Append(@, now)]
           /\ IF locked \/ is_suspicious
              THEN /\ joins' = [joins EXCEPT ![g] = js]
                   /\ StoreLock(g, lk)
                   /\ lastLockCheck' = [lastLockCheck EXCEPT ![g] = chk]
                   /\ joinTask' = [joinTask EXCEPT ![t] =
                          [task EXCEPT !.pc = IF locked THEN "kick" ELSE "suspLog"]]
                   /\ UNCHANGED <<responding, raidStarts, lastRaidCheck, lastJoins, lastSet>>
              ELSE RaidCheck(t, task, js, ids, lk, chk)
    /\ UNCHANGED <<now, automodVars, cfgVars, config, releases, nToggles>>

\* on_member_join from the return of the awaited member.kick: done, then the awaited
\* _send_log and "return"; or HTTPException, "pass", and on to the code after the "if"
KickDone(t, ok) ==
    /\ joinTask[t].pc = "kick"
    /\ LET task == joinTask[t]
           g == task.g
       IN  IF ok \/ task.susp
           THEN /\ joinTask' = [joinTask EXCEPT ![t].pc = IF ok THEN "rejectLog" ELSE "suspLog"]
                /\ UNCHANGED <<joins, lockdown, lockdownUntil, responding, raidStarts,
                               lastRaidCheck, lastJoins, lastSet, lastLockCheck>>
           ELSE RaidCheck(t, task, joins[g], suspicious[g], Lock(g), lastLockCheck[g])
    /\ UNCHANGED <<now, automodVars, cfgVars, suspicious, config, releases, nJoins, recorded, nToggles>>

\* on_member_join from the return of _send_log in the lockdown branch: "return"
RejectLogDone(t) ==
    /\ joinTask[t].pc = "rejectLog"
    /\ joinTask' = [joinTask EXCEPT ![t] = IdleJoin]
    /\ UNCHANGED <<now, automodVars, cfgVars, joins, suspicious, lockdown, lockdownUntil, responding,
                   config, raidStarts, releases, lastRaidCheck, lastJoins, lastSet, lastLockCheck,
                   nJoins, recorded, nToggles>>

\* on_member_join from the return of _send_log for a suspicious join: the raid check
SuspLogDone(t) ==
    /\ joinTask[t].pc = "suspLog"
    /\ LET g == joinTask[t].g
       IN  RaidCheck(t, joinTask[t], joins[g], suspicious[g], Lock(g), lastLockCheck[g])
    /\ UNCHANGED <<now, automodVars, cfgVars, suspicious, config, releases, nJoins, recorded, nToggles>>

\* _handle_raid_detection from the return of the awaited guild.edit: done or Forbidden
\* (caught) go on to the suspicious accounts; another HTTPException leaves the try
\* for "finally: await asyncio.sleep(60)"
EditDone(t, outcome) ==
    /\ joinTask[t].pc = "edit"
    /\ joinTask' = [joinTask EXCEPT ![t] =
           IF outcome \in {"done", "Forbidden"}
           THEN AfterLockdownPart(@, suspicious[@.g])
           ELSE [@ EXCEPT !.pc = "sleep", !.wake = now + RaidCooldownSeconds,
                          !.flagged = suspicious[joinTask[t].g]]]
    /\ UNCHANGED <<now, automodVars, cfgVars, joins, suspicious, lockdown, lockdownUntil, responding,
                   config, raidStarts, releases, lastRaidCheck, lastJoins, lastSet, lastLockCheck,
                   nJoins, recorded, nToggles>>

KickOutcomes == { "done", "HTTPException", "gone" }

\* _handle_raid_detection, one turn of the kick loop: guild.get_member finds nobody
\* ("gone", no kick), or the awaited member.kick returns (done or HTTPException, both
\* continue); after the last turn clear_suspicious and on to the awaited _send_log
KickSuspiciousDone(t, outcome) ==
    /\ joinTask[t].pc = "kickloop"
    /\ LET member_id == Head(joinTask[t].todo)
           rest == Tail(joinTask[t].todo)
           g == joinTask[t].g
           turn == IF outcome = "gone"
                   THEN [joinTask[t] EXCEPT !.todo = rest, !.gone = @ \cup {member_id}]
                   ELSE [joinTask[t] EXCEPT !.todo = rest, !.kicks = @ \cup {member_id}]
       IN  IF rest # <<>>
           THEN /\ joinTask' = [joinTask EXCEPT ![t] = turn]
                /\ UNCHANGED suspicious
           ELSE /\ joinTask' = [joinTask EXCEPT ![t] =
                       [turn EXCEPT !.pc = "rlog", !.cleared = TRUE]]
                /\ suspicious' = [suspicious EXCEPT ![g] = <<>>]
    /\ UNCHANGED <<now, automodVars, cfgVars, joins, lockdown, lockdownUntil, responding,
                   config, raidStarts, releases, lastRaidCheck, lastJoins, lastSet, lastLockCheck,
                   nJoins, recorded, nToggles>>

\* _handle_raid_detection from the return of _send_log: _alert_owner awaits the DM to
\* the owner if alert_owners is set and the guild has an owner, else the sleep begins
RaidLogDone(t, owner) ==
    /\ joinTask[t].pc = "rlog"
    /\ joinTask' = [joinTask EXCEPT ![t] =
           IF config.alert_owners /\ owner
           THEN [@ EXCEPT !.pc = "alert", !.notified = TRUE]
           ELSE [@ EXCEPT !.pc = "sleep", !.wake = now + RaidCooldownSeconds,
                          !.notified = TRUE]]
    /\ UNCHANGED <<now, automodVars, cfgVars, joins, suspicious, lockdown, lockdownUntil, responding,
                   config, raidStarts, releases, lastRaidCheck, lastJoins, lastSet, lastLockCheck,
                   nJoins, recorded, nToggles>>

\* _handle_raid_detection from the return of guild.owner.send (done or HTTPException)
\* to "finally: await asyncio.sleep(60)"
AlertDone(t) ==
    /\ joinTask[t].pc = "alert"
    /\ joinTask' = [joinTask EXCEPT ![t].pc = "sleep", ![t].wake = now + RaidCooldownSeconds]
    /\ UNCHANGED <<now, automodVars, cfgVars, joins, suspicious, lockdown, lockdownUntil, responding,
                   config, raidStarts, releases, lastRaidCheck, lastJoins, lastSet, lastLockCheck,
                   nJoins, recorded, nToggles>>

\* kick_suspicious up to the awaited confirmation prompt: the copy of the list that
\* get_suspicious_joins returns is what the command will go through ("No suspicious
\* accounts are currently flagged" and return when it is empty)
KickSuspiciousCommand(g) ==
    /\ FreeJoinTasks # {}
    /\ suspicious[g] # <<>>
    /\ joinTask' = [joinTask EXCEPT ![LowestFreeJoinTask] =
           [IdleJoin EXCEPT !.pc = "confirm", !.g = g, !.todo = suspicious[g],
                            !.flagged = suspicious[g]]]
    /\ UNCHANGED <<now, automodVars, cfgVars, joins, suspicious, lockdown, lockdownUntil, responding,
                   config, raidStarts, releases, lastRaidCheck, lastJoins, lastSet, lastLockCheck,
                   nJoins, recorded, nToggles>>

ConfirmReactions == { "confirm", "cancel", "timeout" }

\* kick_suspicious from the return of bot.wait_for("reaction_add", timeout=30.0): the
\* kicks begin, or the command ends ("Cancelled", or asyncio.TimeoutError: "Timed Out")
ConfirmDone(t, reaction) ==
    /\ joinTask[t].pc = "confirm"
    /\ joinTask' = [joinTask EXCEPT ![t] =
           IF reaction = "confirm" THEN [@ EXCEPT !.pc = "cmdloop"] ELSE IdleJoin]
    /\ UNCHANGED <<now, automodVars, cfgVars, joins, suspicious, lockdown, lockdownUntil, responding,
                   config, raidStarts, releases, lastRaidCheck, lastJoins, lastSet, lastLockCheck,
                   nJoins, recorded, nToggles>>

\* kick_suspicious, one turn of the kick loop: ctx.guild.get_member finds nobody
\* ("gone", no kick), or the awaited member.kick returns (done or HTTPException, both
\* continue); after the last turn clear_suspicious and on to the awaited msg.edit
CommandKickDone(t, outcome) ==
    /\ joinTask[t].pc = "cmdloop"
    /\ LET member_id == Head(joinTask[t].todo)
           rest == Tail(joinTask[t].todo)
           g == joinTask[t].g
           turn == IF outcome = "gone"
                   THEN [joinTask[t] EXCEPT !.todo = rest, !.gone = @ \cup {member_id}]
                   ELSE [joinTask[t] EXCEPT !.todo = rest, !.kicks = @ \cup {member_id}]
       IN  IF rest # <<>>
           THEN /\ joinTask' = [joinTask EXCEPT ![t] = turn]
                /\ UNCHANGED suspicious
           ELSE /\ joinTask' = [joinTask EXCEPT ![t] =
                       [turn EXCEPT !.pc = "result", !.cleared = TRUE]]
                /\ suspicious' = [suspicious EXCEPT ![g] = <<>>]
    /\ UNCHANGED <<now, automodVars, cfgVars, joins, lockdown, lockdownUntil, responding,
                   config, raidStarts, releases, lastRaidCheck, lastJoins, lastSet, lastLockCheck,
                   nJoins, recorded, nToggles>>

\* kick_suspicious from the return of msg.edit(embed=result_embed) through the awaited
\* _send_log to its end
CommandResultDone(t) ==
    /\ joinTask[t].pc = "result"
    /\ joinTask' = [joinTask EXCEPT ![t] = IdleJoin]
    /\ UNCHANGED <<now, automodVars, cfgVars, joins, suspicious, lockdown, lockdownUntil, responding,
                   config, raidStarts, releases, lastRaidCheck, lastJoins, lastSet, lastLockCheck,
                   nJoins, recorded, nToggles>>

\* what an awaited send of a message can do: return, or raise discord.Forbidden or
\* another discord.HTTPException
SendOutcomes == { "done", "Forbidden", "HTTPException" }

\* Mutant of IsHTTPException: only discord.Forbidden is caught
IsHTTPException_ForbiddenOnly(exc) == exc = "Forbidden"

\* "except discord.HTTPException": discord.Forbidden and discord.NotFound are
\* subclasses of discord.HTTPException
IsHTTPException(exc) == exc \in {"HTTPException", "Forbidden", "NotFound"}

\* the handler after an exception left the try of _handle_raid_detection: "finally:
\* await asyncio.sleep(60)", the exception pending
RaisedInResponse(task, exc) ==
    [task EXCEPT !.pc = "sleep", !.wake = now + RaidCooldownSeconds, !.error = exc]

\* _handle_raid_detection from the return of _send_log, whose last channel.send
\* returned or raised: "except discord.HTTPException: pass", then _alert_owner awaits
\* the DM to the owner if alert_owners is set and the guild has an owner, else the
\* sleep begins
RaidLogSent(t, outcome, owner) ==
    /\ joinTask[t].pc = "rlog"
    /\ joinTask' = [joinTask EXCEPT ![t] =
           IF outcome = "done" \/ IsHTTPException(outcome)
           THEN (IF config.alert_owners /\ owner
                 THEN [@ EXCEPT !.pc = "alert", !.notified = TRUE,
                                !.failed = IF outcome = "done" THEN {} ELSE {"log"}]
                 ELSE [@ EXCEPT !.pc = "sleep", !.wake = now + RaidCooldownSeconds,
                                !.notified = TRUE,
                                !.failed = IF outcome = "done" THEN {} ELSE {"log"}])
           ELSE [RaisedInResponse(@, outcome) EXCEPT !.failed = {"log"}]]
    /\ UNCHANGED <<now, automodVars, cfgVars, joins, suspicious, lockdown, lockdownUntil, responding,
                   config, raidStarts, releases, lastRaidCheck, lastJoins, lastSet, lastLockCheck,
                   nJoins, recorded, nToggles>>

\* _handle_raid_detection from the return of guild.owner.send, which returned or
\* raised: "except discord.HTTPException: pass", then "finally: await asyncio.sleep(60)"
AlertSent(t, outcome) ==
    /\ joinTask[t].pc = "alert"
    /\ joinTask' = [joinTask EXCEPT ![t] =
           IF outcome = "done" \/ IsHTTPException(outcome)
           THEN [@ EXCEPT !.pc = "sleep", !.wake = now + RaidCooldownSeconds,
                          !.failed = IF outcome = "done" THEN @ ELSE @ \cup {"dm"}]
           ELSE [RaisedInResponse(@, outcome) EXCEPT !.failed = @ \cup {"dm"}]]
    /\ UNCHANGED <<now, automodVars, cfgVars, joins, suspicious, lockdown, lockdownUntil, responding,
                   config, raidStarts, releases, lastRaidCheck, lastJoins, lastSet, lastLockCheck,
                   nJoins, recorded, nToggles>>

\* Mutant of SleepDone: the id is discarded without waiting for the sleep
SleepDone_NoWait(t) ==
    /\ joinTask[t].pc = "sleep"
    /\ responding' = responding \ {joinTask[t].g}
    /\ releases' = [releases EXCEPT ![joinTask[t].g] = @ + 1]
    /\ joinTask' = [joinTask EXCEPT ![t] = IdleJoin]
    /\ UNCHANGED <<now, automodVars, cfgVars, joins, suspicious, lockdown, lockdownUntil,
                   config, raidStarts, lastRaidCheck, lastJoins, lastSet, lastLockCheck,
                   nJoins, recorded, nToggles>>

\* Mutant of SleepDone: the release of the id also ends the lockdown
SleepDone_EndsLockdown(t) ==
    /\ joinTask[t].pc = "sleep"
    /\ now >= joinTask[t].wake
    /\ responding' = responding \ {joinTask[t].g}
    /\ releases' = [releases EXCEPT ![joinTask[t].g] = @ + 1]
    /\ joinTask' = [joinTask EXCEPT ![t] = IdleJoin]
    /\ StoreLock(joinTask[t].g, SetLockdown(FALSE, None, now))
    /\ UNCHANGED <<now, automodVars, cfgVars, joins, suspicious,
                   config, raidStarts, lastRaidCheck, lastJoins, lastSet, lastLockCheck,
                   nJoins, recorded, nToggles>>

\* _handle_raid_detection from the return of asyncio.sleep(60):
\* "self._responding_to_raid.discard(guild.id)"
SleepDone(t) ==
    /\ joinTask[t].pc = "sleep"
    /\ now >= joinTask[t].wake
    /\ responding' = responding \ {joinTask[t].g}
    /\ releases' = [releases EXCEPT ![joinTask[t].g] = @ + 1]
    /\ joinTask' = [joinTask EXCEPT ![t] = IdleJoin]
    /\ UNCHANGED <<now, automodVars, cfgVars, joins, suspicious, lockdown, lockdownUntil,
                   config, raidStarts, lastRaidCheck, lastJoins, lastSet, lastLockCheck,
                   nJoins, recorded, nToggles>>

(***************************************************************************)
(* AntiRaid: the lockdown commands and the periodic check.                 *)
(***************************************************************************)
\* toggle_lockdown up to its first await: is_locked_down, then set_lockdown(False) if
\* no duration was given and the guild is locked down, set_lockdown(True, duration or
\* None) if one was given
ToggleLockdown(g, duration) ==
    /\ nToggles' = nToggles + 1
    /\ LET is_locked == IsLockedDown(Lock(g), now)
           lk == AfterIsLockedDown(Lock(g), now)
           duration_val == IF duration # None /\ duration[1] > 0 THEN duration ELSE None
       IN  IF duration = None /\ ~is_locked
           THEN /\ StoreLock(g, lk)
                /\ lastLockCheck' = [lastLockCheck EXCEPT ![g] = LockCheck(now, is_locked)]
                /\ UNCHANGED lastSet
           ELSE /\ StoreLock(g, SetLockdown(duration # None, duration_val, now))
                /\ lastSet' = [lastSet EXCEPT ![g] =
                       SetCall(now, duration # None, duration_val)]
                /\ lastLockCheck' = [lastLockCheck EXCEPT ![g] = NoLockCheck]
    /\ UNCHANGED <<now, automodVars, cfgVars, joins, suspicious, responding, joinTask, config,
                   raidStarts, releases, lastRaidCheck, lastJoins, nJoins, recorded>>

\* raid_status up to its first await: is_locked_down, get_recent_joins(guild.id, 60)
RaidStatus(g) ==
    /\ StoreLock(g, AfterIsLockedDown(Lock(g), now))
    /\ lastLockCheck' = [lastLockCheck EXCEPT ![g] =
           LockCheck(now, IsLockedDown(Lock(g), now))]
    /\ joins' = [joins EXCEPT ![g] = RecentJoins(@, now, RaidStatusWindow)]
    /\ lastJoins' = [lastJoins EXCEPT ![g] =
           JoinQuery(joins[g], recorded[g], now, RaidStatusWindow)]
    /\ UNCHANGED <<now, automodVars, cfgVars, suspicious, responding, joinTask, config,
                   raidStarts, releases, lastRaidCheck, lastSet, nJoins, recorded, nToggles>>

\* check_lockdowns: "if end_time and datetime.now(timezone.utc) > end_time", where the
\* clock is read again, later seconds after the reading of is_locked_down at t
AnnouncesEnd(lk, t, later) ==
    /\ IsLockedDown(lk, t)
    /\ AfterIsLockedDown(lk, t).until # None
    /\ t + later > AfterIsLockedDown(lk, t).until[1]

\* check_lockdowns, one run of the loop body for a guild up to the awaited _send_log of
\* the announcement: is_locked_down, and if it returned True get_lockdown_end and a
\* second reading of the clock, later seconds after the first
CheckLockdowns(g, later) ==
    /\ now' = now + later
    /\ StoreLock(g, AfterIsLockedDown(Lock(g), now))
    /\ lastLockCheck' = [lastLockCheck EXCEPT ![g] =
           SweepCheck(now, IsLockedDown(Lock(g), now), AnnouncesEnd(Lock(g), now, later))]
    /\ UNCHANGED <<automodVars, cfgVars, joins, suspicious, responding, joinTask, config,
                   raidStarts, releases, lastRaidCheck, lastJoins, lastSet, nJoins, recorded, nToggles>>

(***************************************************************************)
(* GuildConfig: JSON values, dot-path keys and one JSON file per guild.    *)
(* A value is a tree: a function from paths (sequences of key strings,     *)
(* each a sequence of characters) to nodes <<kind, n>>; a scalar is a tree *)
(* with the root alone, a dict has kind "dict" at its root.                *)
(***************************************************************************)
Node(kind, n) == <<kind, n>>

Scalar(kind, n) == [p \in {<<>>} |-> Node(kind, n)]

PyNone == Scalar("None", 0)

PyTrue == Scalar("bool", 1)

PyFalse == Scalar("bool", 0)

PyInt(n) == Scalar("int", n)

EmptyDict == Scalar("dict", 0)

IsPathPrefix(p, q) == Len(p) <= Len(q) /\ SubSeq(q, 1, Len(p)) = p

\* the value found at path p of a tree
SubTree(tree, p) ==
    [q \in { SubSeq(x, Len(p) + 1, Len(x)) : x \in { y \in DOMAIN tree : IsPathPrefix(p, y) } }
        |-> tree[p \o q]]

\* target[k] = value: what was under path p is replaced by the tree v
Graft(tree, p, v) ==
    [x \in { y \in DOMAIN tree : ~IsPathPrefix(p, y) } \cup { p \o q : q \in DOMAIN v } |->
        IF IsPathPrefix(p, x) THEN v[SubSeq(x, Len(p) + 1, Len(x))] ELSE tree[x]]

Prefixes(keys) == { SubSeq(keys, 1, i) : i \in 0 .. Len(keys) }

ProperPrefixes(keys) == { SubSeq(keys, 1, i) : i \in 0 .. Len(keys) - 1 }

\* key.split("."): the pieces between the dots, empty ones included
RECURSIVE Split(_)
Split(key) ==
    IF \E i \in 1..Len(key) : key[i] = "."
    THEN LET i == CHOOSE j \in 1..Len(key) :
                      key[j] = "." /\ \A l \in 1..(j - 1) : key[l] # "."
         IN  <<SubSeq(key, 1, i - 1)>> \o Split(SubSeq(key, i + 1, Len(key)))
    ELSE <<key>>

K_log_channel_id == <<"l", "o", "g", "_", "c", "h", "a", "n", "n", "e", "l", "_", "i", "d">>

K_setup_complete == <<"s", "e", "t", "u", "p", "_", "c", "o", "m", "p", "l", "e", "t", "e">>

K_roles == <<"r", "o", "l", "e", "s">>

K_channels == <<"c", "h", "a", "n", "n", "e", "l", "s">>

K_muted == <<"m", "u", "t", "e", "d">>

K_support == <<"s", "u", "p", "p", "o", "r", "t">>

K_admin == <<"a", "d", "m", "i", "n">>

K_moderator == <<"m", "o", "d", "e", "r", "a", "t", "o", "r">>

K_logs == <<"l", "o", "g", "s">>

K_ticket_category ==
    <<"t", "i", "c", "k", "e", "t", "_", "c", "a", "t", "e", "g", "o", "r", "y">>

\* _get_default_config
DefaultGuildConfig ==
    LET leaves == { <<K_log_channel_id>>, <<K_roles, K_muted>>, <<K_roles, K_support>>,
                    <<K_roles, K_admin>>, <<K_roles, K_moderator>>,
                    <<K_channels, K_logs>>, <<K_channels, K_ticket_category>> }
        dicts == { <<>>, <<K_roles>>, <<K_channels>> }
    IN  [p \in leaves \cup dicts \cup { <<K_setup_complete>> } |->
            IF p \in dicts THEN Node("dict", 0)
            ELSE IF p = <<K_setup_complete>> THEN Node("bool", 0)
            ELSE Node("None", 0)]

\* json.dump: the JSON text of a value, node by node
JsonToken(node) ==
    CASE node[1] = "None" -> <<"null", 0>>
      [] node[1] = "bool" -> <<IF node[2] = 1 THEN "true" ELSE "false", 0>>
      [] node[1] = "int" -> <<"number", node[2]>>
      [] node[1] = "dict" -> <<"object", 0>>

\* json.load: the value of a JSON text, node by node
FromJsonToken(tok) ==
    CASE tok[1] = "null" -> Node("None", 0)
      [] tok[1] = "true" -> Node("bool", 1)
      [] tok[1] = "false" -> Node("bool", 0)
      [] tok[1] = "number" -> Node("int", tok[2])
      [] tok[1] = "object" -> Node("dict", 0)

JsonDump(tree) == [p \in DOMAIN tree |-> JsonToken(tree[p])]

JsonLoad(doc) == [p \in DOMAIN doc |-> FromJsonToken(doc[p])]

\* a guild's configuration file: absent, holding a JSON document, or holding the
\* truncated remains of a write that failed after open(guild_file, "w")
NoGuildFile == [exists |-> FALSE, valid |-> FALSE, doc |-> <<>>]

GuildFile(doc) == [exists |-> TRUE, valid |-> TRUE, doc |-> doc]

TruncatedGuildFile == [exists |-> TRUE, valid |-> FALSE, doc |-> <<>>]

\* _load_guild_config: the file's content, or the defaults when there is no file or
\* json.load raises JSONDecodeError
LoadGuildConfig(file) ==
    IF file.exists /\ file.valid THEN JsonLoad(file.doc) ELSE DefaultGuildConfig

\* _save_guild_config: the file after the attempt; open(..., "w") may fail (the file
\* stays), or succeed and truncate the file before json.dump or the close fails
SaveGuildConfig(file, cfg, io) ==
    CASE io = "ok" -> GuildFile(JsonDump(cfg))
      [] io = "open_failed" -> file
      [] io = "write_failed" -> TruncatedGuildFile

\* Mutant of SaveGuildConfigResult: the IOError is not reported
SaveGuildConfigResult_Always(io) == TRUE

\* _save_guild_config: the value returned
SaveGuildConfigResult(io) == io = "ok"

\* self._cache[guild_id] after "if guild_id not in self._cache: ... = self._load_guild_config(guild_id)"
CachedConfig(g) ==
    IF gcCache[g].present THEN gcCache[g].cfg ELSE LoadGuildConfig(gcDisk[g])

Cached(cfg) == [present |-> TRUE, cfg |-> cfg]

NotCached == [present |-> FALSE, cfg |-> EmptyDict]

\* get: the walk along the keys; "isinstance(value, dict) and k in value" at each step,
\* and "return value if value is not None else default"
GetValue(cfg, key, default) ==
    LET keys == Split(key)
    IN  IF keys \in DOMAIN cfg
        THEN (IF cfg[keys] = Node("None", 0) THEN default ELSE SubTree(cfg, keys))
        ELSE default

\* set: the walk along keys[:-1] or the final assignment meets a value that is not a
\* dict (None, bool, int: "k not in target" or "target[k] = ..." raises TypeError)
SetRaises(cfg, key) ==
    \E p \in ProperPrefixes(Split(key)) : p \in DOMAIN cfg /\ cfg[p][1] # "dict"

\* set: the configuration after the walk (missing levels created as {}) and the
\* assignment "target[keys[-1]] = value"
SetValue(cfg, key, value) ==
    LET keys == Split(key)
        missing == { p \in ProperPrefixes(keys) : p \notin DOMAIN cfg }
        levels == [p \in DOMAIN cfg \cup missing |->
                      IF p \in DOMAIN cfg THEN cfg[p] ELSE Node("dict", 0)]
    IN  Graft(levels, keys, value)

NoCfgSet == [called |-> FALSE, g |-> 0, raised |-> FALSE, result |-> FALSE,
             getNow |-> FALSE, getReloaded |-> FALSE, agree |-> FALSE,
             diskSame |-> TRUE, diskIntact |-> TRUE, ioFailed |-> FALSE]

\* set(guild_id, key, value); lastCfgSet records what the call did and what
\* get(guild_id, key) returns right after it, from the cache and from a reloaded store
CfgSet(g, key, value, io) ==
    LET cfg0 == CachedConfig(g)
        raises == SetRaises(cfg0, key)
        cfg1 == IF raises THEN cfg0 ELSE SetValue(cfg0, key, value)
        file1 == IF raises THEN gcDisk[g] ELSE SaveGuildConfig(gcDisk[g], cfg1, io)
    IN  /\ gcCache' = [gcCache EXCEPT ![g] = Cached(cfg1)]
        /\ gcDisk' = [gcDisk EXCEPT ![g] = file1]
        /\ lastCfgSet' =
               [called |-> TRUE, g |-> g, raised |-> raises,
                result |-> ~raises /\ SaveGuildConfigResult(io),
                getNow |-> GetValue(cfg1, key, PyNone) = value,
                getReloaded |-> GetValue(LoadGuildConfig(file1), key, PyNone) = value,
                agree |-> file1.exists /\ file1.valid /\ JsonLoad(file1.doc) = cfg1,
                diskSame |-> file1 = gcDisk[g],
                diskIntact |-> file1.exists => file1.valid,
                ioFailed |-> ~raises /\ io # "ok"]
        /\ nCfgOps' = nCfgOps + 1
        /\ UNCHANGED <<now, automodVars, raidVars>>

\* get(guild_id, key) and get_full_config(guild_id): the first touch of a guild fills
\* the cache; _send_log of the cogs reads the log channel through this call
CfgGet(g) ==
    /\ gcCache' = [gcCache EXCEPT ![g] = Cached(CachedConfig(g))]
    /\ nCfgOps' = nCfgOps + 1
    /\ UNCHANGED <<now, automodVars, raidVars, gcDisk, lastCfgSet>>

\* reload(guild_id)
CfgReload(g) ==
    /\ gcCache' = [gcCache EXCEPT ![g] = Cached(LoadGuildConfig(gcDisk[g]))]
    /\ nCfgOps' = nCfgOps + 1
    /\ UNCHANGED <<now, automodVars, raidVars, gcDisk, lastCfgSet>>

\* delete_guild_config(guild_id): the cache entry goes, the file is unlinked unless
\* unlink raises OSError
CfgDelete(g, ok) ==
    /\ gcCache' = [gcCache EXCEPT ![g] = NotCached]
    /\ gcDisk' = [gcDisk EXCEPT ![g] = IF @.exists /\ ok THEN NoGuildFile ELSE @]
    /\ nCfgOps' = nCfgOps + 1
    /\ UNCHANGED <<now, automodVars, raidVars, lastCfgSet>>

\* a new process: GuildConfig.__init__ starts with an empty cache, the files remain
CfgRestart ==
    /\ gcCache' = [g \in Guilds |-> NotCached]
    /\ nCfgOps' = nCfgOps + 1
    /\ UNCHANGED <<now, automodVars, raidVars, gcDisk, lastCfgSet>>

(***************************************************************************)
(* Time.                                                                   *)
(***************************************************************************)
Tick(d) == now' = now + d

(***************************************************************************)
(* Spec: the progressive punishment of non-exempt members.                 *)
(***************************************************************************)
InitState ==
    /\ now = 0
    /\ warnings = [g \in Guilds |-> <<>>]
    /\ wLoaded = {}
    /\ disk = [g \in Guilds |-> NoFile]
    /\ messages = [g \in Guilds |-> [u \in Users |-> <<>>]]
    /\ contentCache = [g \in Guilds |-> [u \in Users |-> EmptyCache]]
    /\ processing = {}
    /\ spamTask = [t \in Tasks |-> IdleTask]
    /\ everNonExempt = {}
    /\ punished = [g \in Guilds |-> [u \in Users |-> [n |-> 0, last |-> NoPunishment]]]
    /\ tainted = {}
    /\ sincePunish = [g \in Guilds |-> [u \in Users |-> -1]]
    /\ allCalls = [g \in Guilds |-> [u \in Users |-> <<>>]]
    /\ tallied = [g \in Guilds |-> [u \in Users |-> <<>>]]
    /\ lastRet = [g \in Guilds |-> [u \in Users |-> <<0, 0>>]]
    /\ lastClear = [called |-> FALSE, g |-> 0, u |-> 0, before |-> 0, result |-> FALSE,
                    inMemory |-> FALSE, onDisk |-> FALSE, after |-> 0, saved |-> FALSE,
                    diskSame |-> TRUE, diskTruncated |-> FALSE, othersSame |-> TRUE]
    /\ nMessages = [g \in Guilds |-> [u \in Users |-> 0]]
    /\ nCommands = 0
    /\ joins = [g \in Guilds |-> <<>>]
    /\ suspicious = [g \in Guilds |-> <<>>]
    /\ lockdown = [g \in Guilds |-> FALSE]
    /\ lockdownUntil = [g \in Guilds |-> None]
    /\ responding = {}
    /\ joinTask = [t \in JoinTasks |-> IdleJoin]
    /\ raidStarts = [g \in Guilds |-> 0]
    /\ releases = [g \in Guilds |-> 0]
    /\ lastRaidCheck = [g \in Guilds |-> NoRaidCheck]
    /\ lastSet = [g \in Guilds |-> NoSet]
    /\ lastLockCheck = [g \in Guilds |-> NoLockCheck]
    /\ nJoins = [g \in Guilds |-> 0]
    /\ recorded = [g \in Guilds |-> <<>>]
    /\ lastJoins = [g \in Guilds |-> NoJoinQuery]
    /\ nToggles = 0
    /\ gcCache = [g \in Guilds |-> NotCached]
    /\ gcDisk = [g \in Guilds |-> NoGuildFile]
    /\ lastCfgSet = NoCfgSet
    /\ nCfgOps = 0

Init == InitState /\ config = DefaultRaidConfig

PlainMember == Profile(FALSE, FALSE, {"Member"}, {"send_messages"})

PunishUsers == {1}

PunishContents == { <<"h", "i">>, <<"y", "o">> }

Next ==
    \/ \E g \in HomeGuilds, u \in PunishUsers, c \in PunishContents :
           nMessages[g][u] < MaxMessages /\ OnMessage(g, u, PlainMember, c)
    \/ \E t \in Tasks : DeleteDone(t, TRUE, "ok")
    \/ \E t \in Tasks, ok \in BOOLEAN : ActionDone(t, ok, "ok")
    \/ \E t \in Tasks : LogDone(t)
    \/ \E g \in HomeGuilds, u \in PunishUsers :
           nCommands < MaxCommands /\ ManualWarn(g, u, PlainMember, TRUE, "ok")
    \/ \E g \in HomeGuilds, u \in PunishUsers :
           nCommands < MaxCommands /\ ClearUserWarnings(g, u, "ok")
    \/ /\ now < MaxPunishTicks * spam_window_seconds
       /\ Tick(spam_window_seconds)
       /\ UNCHANGED <<automodVars, raidVars, cfgVars>>

Spec == Init /\ [][Next]_vars

(***************************************************************************)
(* Properties of the progressive punishment (Spec).                        *)
(***************************************************************************)
InFlight(g, u) ==
    { t \in Tasks : spamTask[t].pc # "idle" /\ spamTask[t].g = g /\ spamTask[t].u = u }

\* The order the claim gives for kick = 3, ban = 5: timeout, timeout, kick, kick, ban
ClaimedKind(i) ==
    IF i \in {1, 2} THEN "timeout" ELSE IF i \in {3, 4} THEN "kick" ELSE "ban"

CycleIndex(n) == ((n - 1) % 5) + 1

C2_OneTransitionPerKey ==
    \A g \in Guilds, u \in Users :
        /\ Cardinality(InFlight(g, u)) <= 1
        /\ (<<g, u>> \in processing) <=> (InFlight(g, u) # {})

\* C2 witness: a transition waits on message.delete() while a further message of the
\* same member, itself over the duplicate threshold, has been recorded and dropped
C2_Witness ==
    \E t \in Tasks :
        /\ spamTask[t].pc = "delete"
        /\ \E c \in DOMAIN contentCache[spamTask[t].g][spamTask[t].u] :
               contentCache[spamTask[t].g][spamTask[t].u][c] > duplicate_threshold
        /\ CountOf(LoadedWarnings(spamTask[t].g), spamTask[t].u) = 0

\* C7 as stated: every ban branch, also one whose ban failed, ends with the count at 0
C7_ClearedEvenWhenBanFails ==
    \A g \in Guilds, u \in Users :
        punished[g][u].last.kind = "ban" => punished[g][u].last.after = 0

\* C7 amended: a transition whose new count reaches warnings_for_ban attempts a ban; a
\* ban that succeeds clears the warnings (count 0 right after it), a ban that fails
\* leaves the count as it was.
C7_ClearedOnlyWhenBanSucceeds ==
    /\ \A t \in Tasks :
           (spamTask[t].pc \in {"ban", "kick", "timeout"}
               /\ spamTask[t].count >= warnings_for_ban) => spamTask[t].pc = "ban"
    /\ \A g \in Guilds, u \in Users :
           LET last == punished[g][u].last
           IN  /\ last.count >= warnings_for_ban => last.kind = "ban"
               /\ last.kind = "ban" =>
                      /\ last.count >= warnings_for_ban
                      /\ last.ok => last.after = 0
                      /\ ~last.ok => last.after = last.before

\* C7 witness: a ban was attempted and failed, and the member keeps the warnings
C7_Witness ==
    \E g \in Guilds, u \in Users :
        LET last == punished[g][u].last
        IN  /\ last.kind = "ban"
            /\ ~last.ok
            /\ last.after >= warnings_for_ban
            /\ CountOf(warnings[g], u) = last.after

\* C8: a transition starts only when a threshold was reached anew by messages recorded
\* after the member's last punishment (or the member was not punished before).
C8_NoRetriggerBySameBurst ==
    \A t \in Tasks : spamTask[t].pc # "idle" => spamTask[t].anew

(***************************************************************************)
(* SpecExempt: messages and manual warns of members of every profile.      *)
(***************************************************************************)
ExemptContents == { <<"h", "i">> }

NextExempt ==
    \/ \E g \in HomeGuilds, u \in Users, m \in Profiles, c \in ExemptContents :
           nMessages[g][u] < MaxExemptMessages /\ OnMessage(g, u, m, c)
    \/ \E t \in Tasks : DeleteDone(t, TRUE, "ok")
    \/ \E t \in Tasks, ok \in BOOLEAN : ActionDone(t, ok, "ok")
    \/ \E t \in Tasks : LogDone(t)
    \/ \E g \in HomeGuilds, u \in Users, m \in Profiles, h \in BOOLEAN :
           nCommands < MaxExemptCommands /\ ManualWarn(g, u, m, h, "ok")

SpecExempt == Init /\ [][NextExempt]_vars

\* C6: a member who was exempt at every message and at every manual warn aimed at them
\* (bot, owner, exempt role, or administrator / manage-messages / kick / ban
\* permission) has no warning, in memory or on disk, and no transition in progress.
C6_ExemptNeverWarned ==
    \A g \in Guilds, u \in Users :
        <<g, u>> \notin everNonExempt =>
            /\ CountOf(LoadedWarnings(g), u) = 0
            /\ StrKey(u) \in DOMAIN disk[g].doc => disk[g].doc[StrKey(u)] = <<>>
            /\ InFlight(g, u) = {}
            /\ punished[g][u].n = 0

\* C6 witness: an always-exempt member has sent spam_threshold identical messages while
\* another member of the guild was warned
C6_Witness ==
    \E g \in Guilds, u \in Users, v \in Users :
        /\ <<g, u>> \notin everNonExempt
        /\ nMessages[g][u] >= spam_threshold
        /\ CountOf(warnings[g], u) = 0
        /\ CountOf(warnings[g], v) > 0

(***************************************************************************)
(* SpecTracker: SpamTracker.add_message called directly, with a fixed      *)
(* window, at arbitrary times.                                             *)
(***************************************************************************)
TrackerContents == { <<"h", "i">>, <<"H", "I", " ">> }

TrackerTickSteps == {1, 9}

\* a call of SpamTracker.add_message(guild_id, user_id, content, spam_window_seconds)
AddMessageCall(g, u, content) ==
    /\ UNCHANGED <<raidVars, cfgVars>>
    /\ AddMessage(g, u, content, spam_window_seconds)
    /\ UNCHANGED <<now, warnings, wLoaded, disk, processing, spamTask, everNonExempt,
                   punished, tainted, sincePunish, lastClear, nMessages, nCommands>>

NextTracker ==
    \/ \E g \in HomeGuilds, u \in PunishUsers, c \in TrackerContents :
           Len(allCalls[g][u]) < MaxCalls /\ AddMessageCall(g, u, c)
    \/ \E d \in TrackerTickSteps :
           now + d <= MaxTrackerClock /\ Tick(d) /\ UNCHANGED <<automodVars, raidVars, cfgVars>>

SpecTracker == Init /\ [][NextTracker]_vars

\* the add_message calls of a member made less than window_seconds before time t
CallsWithin(g, u, t, window_seconds) ==
    { i \in 1..Len(allCalls[g][u]) : allCalls[g][u][i] > t - window_seconds }

\* C9: the count add_message returns is the number of add_message calls of that member,
\* the current one included, made less than window_seconds before the current call,
\* and after the call every retained timestamp is less than window_seconds old.
C9_CountInWindow ==
    \A g \in Guilds, u \in Users :
        allCalls[g][u] # <<>> =>
            LET t == allCalls[g][u][Len(allCalls[g][u])]
            IN  /\ lastRet[g][u][1] = Cardinality(CallsWithin(g, u, t, spam_window_seconds))
                /\ Len(messages[g][u]) = lastRet[g][u][1]
                /\ \A i \in 1..Len(messages[g][u]) :
                       /\ messages[g][u][i] > t - spam_window_seconds
                       /\ messages[g][u][i] <= t

\* C9 witness: a call returned 2 although 4 calls were made: one of the earlier calls
\* is exactly window_seconds old, one is older
C9_Witness ==
    \E g \in Guilds, u \in Users :
        /\ Len(allCalls[g][u]) = 4
        /\ lastRet[g][u][1] = 2
        /\ \E i \in 1..4 : allCalls[g][u][i] = allCalls[g][u][4] - spam_window_seconds
        /\ \E i \in 1..4 : allCalls[g][u][i] < allCalls[g][u][4] - spam_window_seconds

(***************************************************************************)
(* SpecWarnings: the commands and events that reach UserWarnings.          *)
(***************************************************************************)
NextWarnings ==
    \/ \E g \in HomeGuilds, u \in Users, io \in IoOutcomes :
           nCommands < MaxWarningOps /\ ManualWarn(g, u, PlainMember, TRUE, io)
    \/ \E g \in HomeGuilds, u \in Users, io \in IoOutcomes :
           nCommands < MaxWarningOps /\ ClearUserWarnings(g, u, io)
    \/ \E g \in HomeGuilds, u \in Users :
           nCommands < MaxWarningOps /\ ReadWarnings(g, u)
    \/ now < MaxWarningsClock /\ Tick(1) /\ UNCHANGED <<automodVars, raidVars, cfgVars>>

SpecWarnings == Init /\ [][NextWarnings]_vars

\* C10: clear_warnings for a member with no warnings returns False and leaves no record
\* of that member in memory or in the guild's warnings file, also after a
\* get_warning_count / get_recent_warnings or a rejoin check for that member.
C10_ClearOfNothingReturnsFalse ==
    (lastClear.called /\ lastClear.before = 0) =>
        /\ ~lastClear.result
        /\ ~lastClear.inMemory
        /\ ~lastClear.onDisk

\* C11 as stated: a clear_warnings that follows N >= 1 add_warning calls returns True,
\* leaves the count at 0 and the other members' warnings as they were, and removes the
\* member's entry from the guild's warnings file
C11_ClearRemovesDurableEntry ==
    (lastClear.called /\ lastClear.before >= 1) =>
        /\ lastClear.result
        /\ lastClear.after = 0
        /\ ~lastClear.inMemory
        /\ lastClear.othersSame
        /\ ~lastClear.onDisk

\* C11 amended: a clear_warnings that follows N >= 1 add_warning calls returns True,
\* leaves the count at 0 and the other members' warnings as they were; when its save
\* succeeds the member's entry is gone from the guild's warnings file, and when the
\* save fails the file keeps its previous content or is left truncated
C11_ClearRemovesEntryWhenSaved ==
    (lastClear.called /\ lastClear.before >= 1) =>
        /\ lastClear.result
        /\ lastClear.after = 0
        /\ ~lastClear.inMemory
        /\ lastClear.othersSame
        /\ lastClear.saved => ~lastClear.onDisk
        /\ ~lastClear.saved => lastClear.diskSame \/ lastClear.diskTruncated

\* two warnings of a member were cleared and saved while another member of the guild
\* keeps a warning, in memory and in the file
C11_Witness ==
    \E g \in Guilds, v \in Users :
        /\ lastClear.called /\ lastClear.g = g /\ lastClear.u # v
        /\ lastClear.before = 2
        /\ lastClear.result /\ lastClear.saved
        /\ CountOf(warnings[g], lastClear.u) = 0
        /\ StrKey(lastClear.u) \notin DOMAIN disk[g].doc
        /\ CountOf(warnings[g], v) = 1
        /\ StrKey(v) \in DOMAIN disk[g].doc

(***************************************************************************)
(* SpecRaid: joins, lockdown and the raid response of one guild.           *)
(***************************************************************************)
RaidConfigs == { DefaultRaidConfig, RaidConfig(FALSE, TRUE, TRUE) }

RaidMembers == {1}

RaidTickSteps == {RaidCooldownSeconds}

RaidDurations == { None, Some(0) }

InitRaid == InitState /\ config \in RaidConfigs

NextRaid ==
    \/ \E g \in HomeGuilds, m \in RaidMembers, member \in Accounts :
           /\ nJoins[g] < MaxJoins
           /\ IsSuspiciousAccount(member) => Len(suspicious[g]) < MaxSuspicious
           /\ MemberJoin(g, m, member)
    \/ \E t \in JoinTasks, ok \in BOOLEAN : KickDone(t, ok)
    \/ \E t \in JoinTasks : RejectLogDone(t)
    \/ \E t \in JoinTasks : SuspLogDone(t)
    \/ \E t \in JoinTasks, outcome \in {"done", "Forbidden", "HTTPException"} :
           EditDone(t, outcome)
    \/ \E t \in JoinTasks, outcome \in KickOutcomes : KickSuspiciousDone(t, outcome)
    \/ \E t \in JoinTasks, owner \in BOOLEAN : RaidLogDone(t, owner)
    \/ \E t \in JoinTasks : AlertDone(t)
    \/ \E t \in JoinTasks : SleepDone(t)
    \/ \E g \in HomeGuilds, duration \in RaidDurations :
           nToggles < MaxToggles /\ ToggleLockdown(g, duration)
    \/ \E d \in RaidTickSteps :
           now + d <= MaxRaidClock /\ Tick(d) /\ UNCHANGED <<automodVars, raidVars, cfgVars>>

SpecRaid == InitRaid /\ [][NextRaid]_vars

RespondingTasks(g) == { t \in JoinTasks : joinTask[t].pc \in ResponsePcs /\ joinTask[t].g = g }

InDebounce(g) == IF g \in responding THEN 1 ELSE 0

\* C3: a raid response starts only from a threshold evaluation that counts at least
\* join_threshold joins inside the window, such an evaluation leaves a raid response
\* started, and for each guild the responses started are one per stay of the guild id
\* in _responding_to_raid: while the id is in the set exactly one response is in
\* progress and no join starts another, however the join handlers interleave
C3_OneRaidResponse ==
    \A g \in Guilds :
        /\ Cardinality(RespondingTasks(g)) = InDebounce(g)
        /\ raidStarts[g] = releases[g] + InDebounce(g)
        /\ nJoins[g] < join_threshold => raidStarts[g] = 0
        /\ lastRaidCheck[g].started => lastRaidCheck[g].count >= join_threshold
        /\ lastRaidCheck[g].made /\ lastRaidCheck[g].count >= join_threshold
               => raidStarts[g] >= 1

\* ten joins inside the window have started one response, and an eleventh join was
\* evaluated over the threshold during the debounce period without starting a second
C3_Witness ==
    \E g \in Guilds :
        /\ g \in responding
        /\ raidStarts[g] = 1
        /\ nJoins[g] = join_threshold + 1
        /\ lastRaidCheck[g].made
        /\ lastRaidCheck[g].count = join_threshold + 1
        /\ ~lastRaidCheck[g].started

\* C4: a join that found the guild locked down never reaches the evaluation of the
\* raid threshold, whether or not its kick succeeds
C4_LockedJoinNeverEvaluated ==
    \A g \in Guilds : lastRaidCheck[g].made => ~lastRaidCheck[g].sawLock

\* a join that found the guild locked down has started a raid response
C4_LockedJoinStartsResponse ==
    \E g \in Guilds : lastRaidCheck[g].sawLock /\ lastRaidCheck[g].started

(***************************************************************************)
(* SpecLockdown: the lockdown flag of a guild under the commands, the      *)
(* periodic check and the passing of time.                                 *)
(***************************************************************************)
LockdownDurations == { None, Some(0), Some(1), Some(lockdown_duration_minutes) }

\* the moments at which something happens: around the start and around the end of a
\* lockdown of each duration
LockdownMarks == {0} \cup { 60 * d[1] : d \in LockdownDurations \ {None} }

LockdownInstants ==
    { m + k : m \in LockdownMarks, k \in -1 .. MaxLockdownSlack } \cap Nat

\* the seconds that pass between the two readings of the clock in check_lockdowns
SweepDelays == {0, 1}

NextLockdown ==
    \/ \E g \in HomeGuilds, duration \in LockdownDurations :
           nToggles < MaxLockdownToggles /\ ToggleLockdown(g, duration)
    \/ \E g \in HomeGuilds : RaidStatus(g)
    \/ \E g \in HomeGuilds, later \in SweepDelays :
           now + later \in LockdownInstants \cup {now} /\ CheckLockdowns(g, later)
    \/ \E t \in LockdownInstants :
           t > now /\ Tick(t - now) /\ UNCHANGED <<automodVars, raidVars, cfgVars>>

SpecLockdown == Init /\ [][NextLockdown]_vars

TimedMark(g) == lastSet[g].at + 60 * lockdown_duration_minutes

TimedLockdownSet(g) ==
    /\ lastSet[g].called
    /\ lastSet[g].enabled
    /\ lastSet[g].minutes = Some(lockdown_duration_minutes)

\* C5: when the last set_lockdown call of a guild was set_lockdown(guild, True, 30),
\* every is_locked_down made since then before the 30-minute mark returned true and
\* every one made after the mark returned false, with no call that disables
C5_TimedLockdownExpires ==
    \A g \in Guilds :
        TimedLockdownSet(g) /\ lastLockCheck[g].made =>
            /\ lastLockCheck[g].at < TimedMark(g) => lastLockCheck[g].result
            /\ lastLockCheck[g].at > TimedMark(g) => ~lastLockCheck[g].result

\* a lockdown of 30 minutes was checked after its mark and found ended
C5_Witness ==
    \E g \in Guilds :
        /\ TimedLockdownSet(g)
        /\ lastLockCheck[g].made
        /\ lastLockCheck[g].at > TimedMark(g)
        /\ ~lastLockCheck[g].result
        /\ ~lockdown[g]

(***************************************************************************)
(* SpecConfig: GuildConfig under set, get, reload, delete and restart.     *)
(***************************************************************************)
RECURSIVE Dotted(_)
Dotted(keys) ==
    IF Len(keys) = 1 THEN keys[1] ELSE keys[1] \o <<".">> \o Dotted(Tail(keys))

CfgKeys ==
    { Dotted(<<K_log_channel_id>>),
      Dotted(<<K_roles, K_muted>>),
      Dotted(<<K_roles>>),
      Dotted(<<K_logs, K_admin, K_muted>>),
      Dotted(<<K_log_channel_id, K_admin>>) }

CfgValues == { PyNone, PyTrue, PyInt(5), Graft(EmptyDict, <<K_admin>>, PyInt(7)) }


NextConfig ==
    \/ \E g \in HomeGuilds, key \in CfgKeys, value \in CfgValues, io \in IoOutcomes :
           nCfgOps < MaxCfgOps /\ CfgSet(g, key, value, io)
    \/ \E g \in HomeGuilds : nCfgOps < MaxCfgOps /\ CfgGet(g)
    \/ \E g \in HomeGuilds : nCfgOps < MaxCfgOps /\ CfgReload(g)
    \/ \E g \in HomeGuilds, ok \in BOOLEAN : nCfgOps < MaxCfgOps /\ CfgDelete(g, ok)
    \/ nCfgOps < MaxCfgOps /\ CfgRestart

SpecConfig == Init /\ [][NextConfig]_vars

\* C12: get(guild, key) right after set(guild, key, v) returns v, and still returns v
\* from a reloaded store when set reported the write as done; set itself returns
C12_GetAfterSetReturnsValue ==
    lastCfgSet.called =>
        /\ ~lastCfgSet.raised
        /\ lastCfgSet.getNow
        /\ lastCfgSet.result => lastCfgSet.getReloaded

\* the round trip of C12 for the set calls that return
C12_RoundTripWhenSetReturns ==
    (lastCfgSet.called /\ ~lastCfgSet.raised) =>
        /\ lastCfgSet.getNow
        /\ lastCfgSet.result => lastCfgSet.getReloaded

\* C13 as stated: right after every set the cached configuration of the guild and
\* its file hold the same configuration
C13_CacheEqualsFileAfterSet ==
    lastCfgSet.called => lastCfgSet.agree

\* C13 amended: right after every set that returns True the cached configuration of
\* the guild and its file hold the same configuration
C13_CacheEqualsFileAfterSavedSet ==
    (lastCfgSet.called /\ lastCfgSet.result) => lastCfgSet.agree

\* a set that was not the first operation on the store returned True, and the file
\* now holds the cached configuration, which differs from the defaults
C13_Witness ==
    \E g \in Guilds :
        /\ lastCfgSet.called /\ lastCfgSet.g = g /\ lastCfgSet.result
        /\ gcCache[g].present
        /\ gcCache[g].cfg # DefaultGuildConfig
        /\ gcDisk[g] = GuildFile(JsonDump(gcCache[g].cfg))
        /\ nCfgOps >= 2

\* C14: a set whose write fails returns False without raising, get returns the new
\* value from the cache, and the file still holds what it held before the call
C14_FailedWriteLeavesFileStale ==
    (lastCfgSet.called /\ lastCfgSet.ioFailed) =>
        /\ ~lastCfgSet.raised
        /\ ~lastCfgSet.result
        /\ lastCfgSet.getNow
        /\ lastCfgSet.diskSame

(***************************************************************************)
(* SpecJoin: joins of five members, each with its own account, with the    *)
(* lockdown toggled by hand.                                               *)
(***************************************************************************)
\* member.id -> the account that on_member_join sees for it
MemberAccounts ==
    << Account(30, TRUE, <<"b", "o", "b">>),
       Account(7, TRUE, <<"b", "o", "b">>),
       Account(6, TRUE, <<"b", "o", "b">>),
       Account(30, FALSE, <<"b", "o", "b">>),
       Account(30, TRUE, <<"x", "R", "a", "i", "d", "e", "r">>) >>

JoinMembers == DOMAIN MemberAccounts

NextJoin ==
    \/ \E g \in HomeGuilds, m \in JoinMembers :
           nJoins[g] < MaxJoinEvents /\ MemberJoin(g, m, MemberAccounts[m])
    \/ \E t \in JoinTasks, ok \in BOOLEAN : KickDone(t, ok)
    \/ \E t \in JoinTasks : RejectLogDone(t)
    \/ \E t \in JoinTasks : SuspLogDone(t)
    \/ \E g \in HomeGuilds, duration \in RaidDurations :
           nToggles < MaxToggles /\ ToggleLockdown(g, duration)

SpecJoin == InitRaid /\ [][NextJoin]_vars

\* zero red flags: old enough, with an avatar, no listed pattern in the lowered name
ZeroRedFlags(member) ==
    /\ member.age_days >= min_account_age_days
    /\ member.avatar
    /\ \A pattern \in SuspiciousPatterns : ~Contains(Lower(member.name), pattern)

\* C15: no member with zero red flags is ever on the suspicious list of a guild
C15_CleanMemberNeverSuspicious ==
    \A g \in Guilds : \A i \in 1..Len(suspicious[g]) :
        ~ZeroRedFlags(MemberAccounts[suspicious[g][i]])

\* outside lockdown four members have joined and their handlers have finished; the
\* three flagged ones are on the list, the fourth, with zero red flags, is not
C15_Witness ==
    \E g \in Guilds :
        /\ nJoins[g] = 4
        /\ nToggles = 0
        /\ \A t \in JoinTasks : joinTask[t].pc = "idle"
        /\ { suspicious[g][i] : i \in 1..Len(suspicious[g]) } = {3, 4, 5}
        /\ Len(suspicious[g]) = 3

(***************************************************************************)
(* SpecToggle: the lockdown command and the joins that follow it.          *)
(***************************************************************************)
ToggleMembers == {1, 5}

ToggleDurations == { None, Some(0), Some(1), Some(-1) }

\* the moments at which something happens: around the end of a lockdown of one minute
ToggleInstants == {1, 60, 61}

NextToggle ==
    \/ \E g \in HomeGuilds, m \in ToggleMembers :
           nJoins[g] < MaxToggleJoins /\ MemberJoin(g, m, MemberAccounts[m])
    \/ \E t \in JoinTasks, ok \in BOOLEAN : KickDone(t, ok)
    \/ \E t \in JoinTasks : RejectLogDone(t)
    \/ \E t \in JoinTasks : SuspLogDone(t)
    \/ \E g \in HomeGuilds, duration \in ToggleDurations :
           nToggles < MaxToggleCommands /\ ToggleLockdown(g, duration)
    \/ \E t \in ToggleInstants :
           t > now /\ Tick(t - now) /\ UNCHANGED <<automodVars, raidVars, cfgVars>>

SpecToggle == Init /\ [][NextToggle]_vars

\* a recorded set_lockdown call enabled a lockdown that has not run out by t
SetLocks(set, t) ==
    /\ set.called
    /\ set.enabled
    /\ set.minutes # None => t <= set.at + 60 * set.minutes[1]

\* C16: the step of the lockdown command leaves the flag of the guild as its last
\* set_lockdown call commands (raised by "lockdown <n>", down after "lockdown"), and
\* every join evaluated after a command that called set_lockdown goes to the lockdown
\* kick exactly when that call enabled a lockdown that has not run out
C16_ToggleSeenByNextJoin ==
    [][\A g \in Guilds :
          /\ nToggles' = nToggles + 1 => lockdown'[g] = SetLocks(lastSet'[g], now)
          /\ (nJoins'[g] = nJoins[g] + 1 /\ lastSet[g].called) =>
                 (joinTask'[LowestFreeJoinTask].pc = "kick") = SetLocks(lastSet[g], now)
      ]_vars

\* a lockdown was enabled and then disabled by command, and the one join of the guild,
\* made later than the disabling call, was evaluated as not locked
C16_Witness ==
    \E g \in Guilds, t \in JoinTasks :
        /\ nToggles = 2
        /\ lastSet[g].called /\ ~lastSet[g].enabled
        /\ nJoins[g] = 1
        /\ Len(joins[g]) = 1 /\ joins[g][1] > lastSet[g].at
        /\ joinTask[t].pc = "suspLog" /\ joinTask[t].g = g /\ ~joinTask[t].sawLock

(***************************************************************************)
(* SpecSpam: the spam transitions of one member with every outcome of the  *)
(* delete and of the punitive action.                                      *)
(***************************************************************************)
SpamContents == { <<"h", "i">> }

NextSpam ==
    \/ \E g \in HomeGuilds, u \in PunishUsers, c \in SpamContents :
           nMessages[g][u] < MaxSpamMessages /\ OnMessage(g, u, PlainMember, c)
    \/ \E t \in Tasks, deleted \in BOOLEAN : DeleteDone(t, deleted, "ok")
    \/ \E t \in Tasks, ok \in BOOLEAN : ActionDone(t, ok, "ok")
    \/ \E t \in Tasks : LogDone(t)
    \/ \E g \in HomeGuilds, u \in PunishUsers :
           nCommands < MaxCommands /\ ManualWarn(g, u, PlainMember, TRUE, "ok")

SpecSpam == Init /\ [][NextSpam]_vars

\* C17: in every spam transition, whatever the outcome of the delete and of the
\* punitive action, add_warning raised the count of the member by exactly one, the
\* duplicate tally of the member was reset, and a punitive action that failed left
\* the count as it was
C17_BookkeepingDespiteFailures ==
    /\ \A t \in Tasks :
           spamTask[t].pc \in {"ban", "kick", "timeout", "log"} =>
               spamTask[t].count = spamTask[t].prior + 1
    /\ \A g \in Guilds, u \in Users :
           LET last == punished[g][u].last
           IN  last.kind # "none" =>
                   /\ last.count = last.prior + 1
                   /\ last.reset
                   /\ ~last.ok => last.after = last.before

\* a transition whose delete failed and whose kick failed has counted the third
\* warning of the member and reset the tally
C17_Witness ==
    \E g \in Guilds, u \in Users :
        LET last == punished[g][u].last
        IN  /\ last.kind = "kick" /\ ~last.ok /\ ~last.deleted
            /\ last.prior = 2 /\ last.count = 3 /\ last.after = 3
            /\ contentCache[g][u] = EmptyCache
            /\ CountOf(warnings[g], u) = 3

(***************************************************************************)
(* SpecRejoin: the spam transitions of one member, who rejoins after a     *)
(* kick that went through.                                                 *)
(***************************************************************************)
\* the member was removed by the last punitive action and can join again
WasKicked(g, u) == punished[g][u].last.kind = "kick" /\ punished[g][u].last.ok

NextRejoin ==
    \/ \E g \in HomeGuilds, u \in PunishUsers, c \in SpamContents :
           nMessages[g][u] < MaxSpamMessages /\ OnMessage(g, u, PlainMember, c)
    \/ \E t \in Tasks, deleted \in BOOLEAN : DeleteDone(t, deleted, "ok")
    \/ \E t \in Tasks, ok \in BOOLEAN : ActionDone(t, ok, "ok")
    \/ \E t \in Tasks : LogDone(t)
    \/ \E g \in HomeGuilds, u \in PunishUsers :
           nCommands < MaxRejoins /\ WasKicked(g, u) /\ MemberRejoin(g, u, FALSE)

SpecRejoin == Init /\ [][NextRejoin]_vars

\* C18: the step that completes a kick leaves the count of the member at the count
\* the transition reached, which is at least warnings_for_kick and below
\* warnings_for_ban; the step of a rejoin leaves the count of every member, the
\* warnings file, the transitions in flight and the punitive actions taken as they were
C18_KickKeepsCountRejoinReadsIt ==
    [][\A g \in Guilds, u \in Users :
          /\ (punished'[g][u].n = punished[g][u].n + 1
                  /\ punished'[g][u].last.kind = "kick") =>
                 /\ CountOf(warnings'[g], u) = punished'[g][u].last.count
                 /\ punished'[g][u].last.count >= warnings_for_kick
                 /\ punished'[g][u].last.count < warnings_for_ban
          /\ nCommands' = nCommands + 1 =>
                 /\ CountOf(warnings'[g], u) = CountOf(LoadedWarnings(g), u)
                 /\ UNCHANGED <<disk, spamTask, processing, punished>>
      ]_vars

\* the third transition of the member was a kick that went through, the member has
\* rejoined once since, to an advisory, and the count is still 3
C18_Witness ==
    \E g \in Guilds, u \in Users :
        /\ punished[g][u].n = 3
        /\ WasKicked(g, u)
        /\ punished[g][u].last.count = 3
        /\ nCommands = 1
        /\ CountOf(warnings[g], u) = 3
        /\ RejoinAdvisory(CountOf(warnings[g], u))
        /\ \A t \in Tasks : spamTask[t].pc = "idle"

(***************************************************************************)
(* SpecMarker: the processing marker of two members; every awaited call of *)
(* a transition returns, with any outcome, or raises.                      *)
(***************************************************************************)
\* the steps by which the awaited calls of transition t return
TransitionStep(t) ==
    \/ \E deleted \in BOOLEAN : DeleteDone(t, deleted, "ok")
    \/ \E ok \in BOOLEAN : ActionDone(t, ok, "ok")
    \/ LogDone(t)

NextMarker ==
    \/ \E g \in HomeGuilds, u \in Users, c \in SpamContents :
           nMessages[g][u] < MaxMarkerMessages /\ OnMessage(g, u, PlainMember, c)
    \/ \E t \in Tasks : TransitionStep(t)
    \/ \E t \in Tasks : TransitionRaised(t)

\* the event loop resumes every coroutine whose awaited call has returned
SpecMarker ==
    Init /\ [][NextMarker]_vars /\ \A t \in Tasks : WF_vars(TransitionStep(t))

\* C19: the marker of a member is set exactly while a transition of the member is in
\* progress, and a marker that is set is eventually cleared, whatever the outcome of
\* the delete, of the punitive action and of the log
C19_MarkerEventuallyCleared ==
    /\ [](\A g \in Guilds, u \in Users :
             (<<g, u>> \in processing) = (InFlight(g, u) # {}))
    /\ \A g \in Guilds, u \in Users :
           (<<g, u>> \in processing) ~> (<<g, u>> \notin processing)

\* a transition whose delete and whose timeout both failed has ended and the marker
\* of the member is cleared, while the transition of the other member is in progress
C19_Witness ==
    \E g \in Guilds, u \in Users, v \in Users :
        /\ u # v
        /\ punished[g][u].n = 1
        /\ ~punished[g][u].last.ok /\ ~punished[g][u].last.deleted
        /\ <<g, u>> \notin processing
        /\ InFlight(g, u) = {}
        /\ <<g, v>> \in processing

(***************************************************************************)
(* SpecCooldown: raid responses of one guild and the sleep that ends each, *)
(* with joins of one member without red flags.                             *)
(***************************************************************************)
CooldownMembers == {1}

CooldownTickSteps == {RaidCooldownSeconds}

Sleeping == { t \in JoinTasks : joinTask[t].pc = "sleep" /\ joinTask[t].wake > now }

\* the steps by which the awaited calls of join handler t return
JoinHandlerStep(t) ==
    \/ \E ok \in BOOLEAN : KickDone(t, ok)
    \/ RejectLogDone(t)
    \/ \E outcome \in {"done", "Forbidden", "HTTPException"} : EditDone(t, outcome)
    \/ \E owner \in BOOLEAN : RaidLogDone(t, owner)
    \/ AlertDone(t)
    \/ SleepDone(t)

\* time passes
CooldownTick ==
    \E d \in CooldownTickSteps :
        /\ now + d <= MaxCooldownClock \/ Sleeping # {}
        /\ Tick(d)
        /\ UNCHANGED <<automodVars, raidVars, cfgVars>>

NextCooldown ==
    \/ \E g \in HomeGuilds, m \in CooldownMembers :
           nJoins[g] < MaxCooldownJoins /\ MemberJoin(g, m, MemberAccounts[m])
    \/ \E t \in JoinTasks : JoinHandlerStep(t)
    \/ CooldownTick

\* the event loop resumes every coroutine whose awaited call has returned, and time
\* passes
SpecCooldown ==
    /\ InitRaid
    /\ [][NextCooldown]_vars
    /\ \A t \in JoinTasks : WF_vars(JoinHandlerStep(t))
    /\ WF_vars(CooldownTick)

\* a step removes the id of a guild from _responding_to_raid only from the sleep of
\* a response of that guild, 60 seconds or more after the sleep began, and every
\* sleep of a response begins with 60 seconds to go
ReleasedOnlyAfterCooldown ==
    \A g \in Guilds :
        /\ (g \in responding /\ g \notin responding') =>
               \E t \in JoinTasks :
                   /\ joinTask[t].pc = "sleep" /\ joinTask[t].g = g
                   /\ joinTask'[t].pc = "idle"
                   /\ now >= joinTask[t].wake
        /\ \A t \in JoinTasks :
               (joinTask[t].pc # "sleep" /\ joinTask'[t].pc = "sleep") =>
                   joinTask'[t].wake = now + 60

\* the join of this step brings the count of joins inside the window to the threshold
\* or above, after a release and with no id of the guild in _responding_to_raid
JoinOverThresholdAfterRelease(g) ==
    /\ nJoins'[g] = nJoins[g] + 1
    /\ releases[g] >= 1
    /\ g \notin responding
    /\ Len(RecentJoins(RecordJoin(joins[g], now), now, join_window_seconds)) >= join_threshold

StartsResponse(g) == raidStarts'[g] = raidStarts[g] + 1 /\ g \in responding'

C21_EditFailureNeverAborts ==
    \A t \in JoinTasks :
        joinTask[t].pc = "sleep" => joinTask[t].handled /\ joinTask[t].notified

(***************************************************************************)
(* SpecResponse: raid responses of one guild under every setting of        *)
(* auto_lockdown and kick_suspicious_on_raid, with joins of one member     *)
(* without red flags and of two that are flagged.                          *)
(***************************************************************************)
ResponseConfigs ==
    { RaidConfig(auto_lockdown, kick_suspicious_on_raid, TRUE) :
          auto_lockdown \in BOOLEAN, kick_suspicious_on_raid \in BOOLEAN }

ResponseMembers == {1, 4, 5}

InitResponse == InitState /\ config \in ResponseConfigs

NextResponse ==
    \/ \E g \in HomeGuilds, m \in ResponseMembers :
           /\ nJoins[g] < MaxResponseJoins
           /\ IsSuspiciousAccount(MemberAccounts[m]) =>
                  Len(suspicious[g]) < MaxResponseSuspicious
           /\ MemberJoin(g, m, MemberAccounts[m])
    \/ \E t \in JoinTasks, ok \in BOOLEAN : KickDone(t, ok)
    \/ \E t \in JoinTasks : RejectLogDone(t)
    \/ \E t \in JoinTasks : SuspLogDone(t)
    \/ \E t \in JoinTasks, outcome \in {"done", "Forbidden", "HTTPException"} :
           EditDone(t, outcome)
    \/ \E t \in JoinTasks, outcome \in KickOutcomes : KickSuspiciousDone(t, outcome)
    \/ \E t \in JoinTasks, owner \in BOOLEAN : RaidLogDone(t, owner)
    \/ \E t \in JoinTasks : AlertDone(t)

SpecResponse == InitResponse /\ [][NextResponse]_vars

Ids(list) == { list[i] : i \in DOMAIN list }

\* C22: with kick_suspicious_on_raid set, a raid response that has come to its closing
\* sleep has awaited member.kick for every id that was on the list of suspicious
\* joins when it left the lockdown part, unless guild.get_member found nobody, and it
\* has cleared the list if there was an id on it
C22_KicksEveryFlaggedMember ==
    \A t \in JoinTasks :
        (joinTask[t].pc = "sleep" /\ config.kick_suspicious_on_raid) =>
            /\ joinTask[t].kicks \cup joinTask[t].gone = Ids(joinTask[t].flagged)
            /\ joinTask[t].flagged # <<>> => joinTask[t].cleared

\* C23: with kick_suspicious_on_raid not set, no raid response awaits member.kick for
\* a flagged member, and the list of suspicious joins changes only by the id that a
\* join appends to it: the response leaves it as it is
C23_NotConfiguredKeepsList ==
    [][~config.kick_suspicious_on_raid =>
          /\ \A t \in JoinTasks : joinTask[t].kicks = {} /\ joinTask'[t].kicks = {}
          /\ \A t \in JoinTasks : joinTask'[t].pc # "kickloop" /\ ~joinTask'[t].cleared
          /\ \A g \in Guilds :
                 /\ IsPrefix(suspicious[g], suspicious'[g])
                 /\ suspicious'[g] # suspicious[g] => nJoins'[g] = nJoins[g] + 1]_vars

\* C23 witness: with the option not set, a response that found two ids on the list has
\* come to its closing sleep and the list still holds them
C23_Witness ==
    \E t \in JoinTasks :
        /\ ~config.kick_suspicious_on_raid
        /\ joinTask[t].pc = "sleep"
        /\ joinTask[t].handled /\ joinTask[t].notified
        /\ Len(joinTask[t].flagged) = 2
        /\ suspicious[joinTask[t].g] = joinTask[t].flagged

(***************************************************************************)
(* Properties of the automatic lockdown (SpecCooldown).                    *)
(***************************************************************************)
\* C24: with auto_lockdown set, the step that starts a raid response, which runs up to
\* the first await of the handler, leaves the guild locked down until now + 60 *
\* lockdown_duration_minutes; and the step that releases the id of the guild from
\* _responding_to_raid leaves the lockdown flag and its end time as they were, so
\* the guild is still locked down after the release
C24_LockdownSetAtEntryKeptAtRelease ==
    [][\A g \in Guilds :
          /\ (StartsResponse(g) /\ config.auto_lockdown) =>
                 /\ lockdown'[g]
                 /\ lockdownUntil'[g] = Some(now + 60 * lockdown_duration_minutes)
          /\ (g \in responding /\ g \notin responding') =>
                 /\ lockdown'[g] = lockdown[g]
                 /\ lockdownUntil'[g] = lockdownUntil[g]
                 /\ config.auto_lockdown => IsLockedDown(Lock(g), now) /\ lockdown'[g]]_vars

\* C24 witness: the automatic lockdown of a response that began at second 0 is still
\* set, with its end at 30 minutes, after the id of the guild has been released
C24_Witness ==
    \E g \in Guilds :
        /\ config.auto_lockdown
        /\ releases[g] = 1
        /\ g \notin responding
        /\ now >= RaidCooldownSeconds
        /\ lockdown[g]
        /\ lockdownUntil[g] = Some(60 * lockdown_duration_minutes)

(***************************************************************************)
(* SpecRestart: add_warning and clear_warnings whose writes succeed, reads *)
(* of the count, and restarts of the process.                              *)
(***************************************************************************)
NextRestart ==
    \/ \E g \in HomeGuilds, u \in Users :
           nCommands < MaxRestartOps /\ ManualWarn(g, u, PlainMember, TRUE, "ok")
    \/ \E g \in HomeGuilds, u \in Users :
           nCommands < MaxRestartOps /\ ClearUserWarnings(g, u, "ok")
    \/ \E g \in HomeGuilds, u \in Users :
           nCommands < MaxRestartOps /\ ReadWarnings(g, u)
    \/ nCommands < MaxRestartOps /\ WarningsRestart
    \/ now < MaxWarningsClock /\ Tick(1) /\ UNCHANGED <<automodVars, raidVars, cfgVars>>

SpecRestart == Init /\ [][NextRestart]_vars

\* get_warning_count(guild_id, user_id) as the instance in memory answers it
CountNow(g, u) == CountOf(LoadedWarnings(g), u)

\* get_warning_count(guild_id, user_id) as a new instance answers it on its first touch
\* of the guild
CountFresh(g, u) == CountOf(LoadGuildWarnings(disk[g]), u)

\* C25: at every moment of a run of add_warning and clear_warnings calls whose writes
\* succeed, a new UserWarnings instance would answer get_warning_count for every
\* member as the running instance does, and the step that replaces the running
\* instance by a new one leaves every member's count as it was
C25_FreshInstanceSameCounts ==
    [][\A g \in Guilds, u \in Users :
          /\ CountFresh(g, u) = CountNow(g, u)
          /\ (wLoaded # {} /\ wLoaded' = {}) => CountNow(g, u)' = CountNow(g, u)]_vars

\* C25 witness: a new instance has replaced one that had given a member two warnings
\* and had given another member a warning and cleared it
C25_Witness ==
    \E g \in Guilds, u \in Users, v \in Users :
        /\ wLoaded = {}
        /\ warnings[g] = <<>>
        /\ CountOf(LoadGuildWarnings(disk[g]), u) = 2
        /\ lastClear.called /\ lastClear.u = v /\ lastClear.before = 1
        /\ CountOf(LoadGuildWarnings(disk[g]), v) = 0

(***************************************************************************)
(* Properties of the rejoin (SpecRejoin).                                  *)
(***************************************************************************)
\* C26: a member who was kicked, has rejoined with a count at or above
\* warnings_for_kick and offends again is banned: the punitive action chosen by the
\* transition that follows the kick is the ban
C26_RejoinedMemberIsBannedNext ==
    \A t \in Tasks :
        (/\ spamTask[t].pc \in {"ban", "kick", "timeout"}
         /\ WasKicked(spamTask[t].g, spamTask[t].u)
         /\ nCommands >= 1
         /\ spamTask[t].prior >= warnings_for_kick) =>
            spamTask[t].pc = "ban"

(***************************************************************************)
(* SpecSweep: SpecLockdown with the periodic check running for ever and    *)
(* time passing.                                                           *)
(***************************************************************************)
\* one run of the loop body of check_lockdowns
SweepStep ==
    \E g \in HomeGuilds, later \in SweepDelays :
        now + later \in LockdownInstants \cup {now} /\ CheckLockdowns(g, later)

LockdownTick ==
    \E t \in LockdownInstants :
        t > now /\ Tick(t - now) /\ UNCHANGED <<automodVars, raidVars, cfgVars>>

\* tasks.loop(minutes=5) keeps running check_lockdowns, and time passes
SpecSweep ==
    Init /\ [][NextLockdown]_vars /\ WF_vars(SweepStep) /\ WF_vars(LockdownTick)

\* the last set_lockdown of the guild enabled a lockdown with a duration, and its end
\* time has passed
ExpiredTimedLockdown(g) ==
    /\ lastSet[g].called
    /\ lastSet[g].enabled
    /\ lastSet[g].minutes # None
    /\ now > LockdownEnd(lastSet[g].at, lastSet[g].minutes[1])

\* C27: whenever the end time of a timed lockdown has passed and no command has
\* disabled it, a run of check_lockdowns eventually announces 'Lockdown Ended'
C27_ExpiryEventuallyAnnounced ==
    \A g \in Guilds :
        ExpiredTimedLockdown(g) ~> (lastLockCheck[g].sweep /\ lastLockCheck[g].announced)

(***************************************************************************)
(* Properties of the indefinite lockdown (SpecRaid).                       *)
(***************************************************************************)
\* C28: a lockdown with no end time stays set, with no end time, through every step
\* that is not a lockdown command: no join, raid response or passing of time ends it
\* or gives it an end time
C28_IndefiniteLockdownStays ==
    [][\A g \in Guilds :
          (lockdown[g] /\ lockdownUntil[g] = None) =>
              \/ lockdown'[g] /\ lockdownUntil'[g] = None
              \/ nToggles' = nToggles + 1]_vars

(***************************************************************************)
(* Properties of the trigger and of the order of a transition (Spec).      *)
(***************************************************************************)
\* the step starts a transition for the member: a _handle_spam that was not running
\* is at its first await, and the marker of the member is set
StartsTransition(g, u) ==
    /\ <<g, u>> \in processing'
    /\ \E t \in Tasks :
           /\ spamTask[t].pc = "idle"
           /\ spamTask'[t].pc = "delete" /\ spamTask'[t].g = g /\ spamTask'[t].u = u

\* the messages of the member inside the window once the message of this step is
\* recorded
CountInWindow(g, u) == Cardinality(CallsWithin(g, u, now, spam_window_seconds)) + 1

\* the tally, once the message of this step is recorded, of the content it has
DuplicateCount(g, u) ==
    LET c == CHOOSE x \in DOMAIN contentCache'[g][u] :
                 \/ x \notin DOMAIN contentCache[g][u]
                 \/ contentCache'[g][u][x] # contentCache[g][u][x]
    IN  contentCache'[g][u][c]

\* C29: the step that records a message of a non-exempt member starts a transition for
\* that member if and only if the count of the member's messages inside the window
\* is at least spam_threshold or the tally of the message's normalized content is at
\* least duplicate_threshold, and no transition of the member is in progress
C29_TriggerIffOverThreshold ==
    [][\A g \in Guilds, u \in Users :
          nMessages'[g][u] = nMessages[g][u] + 1 =>
              (StartsTransition(g, u) <=>
                   /\ \/ CountInWindow(g, u) >= spam_threshold
                      \/ DuplicateCount(g, u) >= duplicate_threshold
                   /\ <<g, u>> \notin processing)]_vars

\* C29 witness: a transition is at its first await although no content of the member
\* has a tally of duplicate_threshold: the count inside the window started it
C29_Witness ==
    \E t \in Tasks :
        LET g == spamTask[t].g
            u == spamTask[t].u
        IN  /\ spamTask[t].pc = "delete"
            /\ \A c \in DOMAIN contentCache[g][u] : contentCache[g][u][c] < duplicate_threshold
            /\ Len(messages[g][u]) >= spam_threshold
            /\ punished[g][u].n = 1

\* the punitive action the claim gives for a count
ClaimedAction(count) ==
    IF count >= warnings_for_ban THEN "ban"
    ELSE IF count >= warnings_for_kick THEN "kick"
    ELSE "timeout"

PunitivePcs == {"ban", "kick", "timeout"}

\* C30: a transition goes through its steps in one order. It begins at the awaited
\* delete of the message; the return of the delete, whatever it is, is followed in the
\* same step by the increment of the count and the choice of the punitive action from
\* the count after the increment, with the duplicate tally not yet reset; the return
\* of that one punitive action is followed by the reset of the tally, and no other
\* step of the transition is a punitive action or raises the count
C30_OrderOfTransition ==
    [][\A t \in Tasks :
          LET g == spamTask[t].g
              u == spamTask[t].u
              pc == spamTask[t].pc
              pc1 == spamTask'[t].pc
          IN  /\ (pc1 = "delete" /\ pc # "delete") => pc = "idle"
              /\ (pc1 \in PunitivePcs /\ pc # pc1) => pc = "delete"
              /\ (pc1 = "log" /\ pc # "log") => pc \in PunitivePcs
              /\ (pc = "delete" /\ pc1 # "delete") =>
                     /\ CountOf(warnings'[g], u) = CountOf(LoadedWarnings(g), u) + 1
                     /\ pc1 = ClaimedAction(CountOf(warnings'[g], u))
                     /\ contentCache'[g][u] = contentCache[g][u]
                     /\ punished'[g][u].n = punished[g][u].n
              /\ (pc \in PunitivePcs /\ pc1 # pc) =>
                     /\ pc1 = "log"
                     /\ punished'[g][u].n = punished[g][u].n + 1
                     /\ punished'[g][u].last.kind = pc
                     /\ contentCache[g][u] # EmptyCache
                     /\ contentCache'[g][u] = EmptyCache
                     /\ CountOf(warnings'[g], u) <= CountOf(LoadedWarnings(g), u)
              /\ (pc = "log" /\ pc1 # "log") =>
                     /\ pc1 = "idle"
                     /\ punished'[g][u].n = punished[g][u].n
                     /\ CountOf(warnings'[g], u) = CountOf(LoadedWarnings(g), u)]_vars

\* C30 witness: a transition whose delete failed has raised the count from 2 to 3,
\* kicked the member, reset the tally, and awaits its log
C30_Witness ==
    \E t \in Tasks :
        LET g == spamTask[t].g
            u == spamTask[t].u
        IN  /\ spamTask[t].pc = "log"
            /\ ~spamTask[t].deleted
            /\ spamTask[t].prior = 2 /\ spamTask[t].count = 3
            /\ punished[g][u].last.kind = "kick"
            /\ punished[g][u].last.count = 3
            /\ contentCache[g][u] = EmptyCache

(***************************************************************************)
(* SpecTally: add_message calls of one member with contents that differ in *)
(* case, in surrounding whitespace and beyond the 100th character, resets  *)
(* of the tally, and time passing beyond the window.                       *)
(***************************************************************************)
\* a call of SpamTracker.reset_content_cache(guild_id, user_id)
ResetContentCacheCall(g, u) ==
    /\ UNCHANGED <<raidVars, cfgVars>>
    /\ contentCache' = [contentCache EXCEPT ![g][u] = ResetContentCache(@)]
    /\ tallied' = [tallied EXCEPT ![g][u] = <<>>]
    /\ UNCHANGED <<now, warnings, wLoaded, disk, messages, processing, spamTask,
                   everNonExempt, punished, tainted, sincePunish, allCalls, lastRet,
                   lastClear, nMessages, nCommands>>

\* contents that differ in case, in surrounding whitespace, and after 100 characters
TallyContents == Contents \ { <<"y", "o">> }

\* two steps of the clock leave the spam window behind
TallyTickSteps == {6}

NextTally ==
    \/ \E g \in HomeGuilds, u \in PunishUsers, c \in TallyContents :
           Len(allCalls[g][u]) < MaxTallyCalls /\ AddMessageCall(g, u, c)
    \/ \E g \in HomeGuilds, u \in PunishUsers :
           contentCache[g][u] # EmptyCache /\ ResetContentCacheCall(g, u)
    \/ \E d \in TallyTickSteps :
           now + d <= MaxTallyClock /\ Tick(d) /\ UNCHANGED <<automodVars, raidVars, cfgVars>>

SpecTally == Init /\ [][NextTally]_vars

RECURSIVE SumOver(_, _)
SumOver(calls, S) ==
    IF S = {} THEN 0
    ELSE LET x == CHOOSE y \in S : TRUE
         IN  calls[x] + SumOver(calls, S \ {x})

\* the content, as sent, of the add_message call of this step
ContentOfCall(g, u) ==
    CHOOSE x \in DOMAIN tallied'[g][u] :
        x \notin DOMAIN tallied[g][u] \/ tallied'[g][u][x] # tallied[g][u][x]

\* normalization as the claim words it: lowercased and truncated to 100 characters
LoweredTruncated(content) == Truncate(Lower(content), MAX_CONTENT_LENGTH)

\* normalization with the surrounding whitespace removed before the truncation
LoweredStrippedTruncated(content) == Truncate(Strip(Lower(content)), MAX_CONTENT_LENGTH)

\* C31 as stated: the duplicate count add_message returns is the number of calls since
\* the last reset of the tally, this one included, whose content lowercased and
\* truncated to 100 characters equals that of this call, whatever time has passed
C31_DuplicateCountLoweredTruncated ==
    [][\A g \in Guilds, u \in Users :
          Len(allCalls'[g][u]) = Len(allCalls[g][u]) + 1 =>
              lastRet'[g][u][2] =
                  SumOver(tallied'[g][u],
                          { x \in DOMAIN tallied'[g][u] :
                                LoweredTruncated(x) = LoweredTruncated(ContentOfCall(g, u)) })]_vars

\* C31 amended: as stated, with the contents compared after lowercasing, removal of
\* the surrounding whitespace and truncation to 100 characters
C31_DuplicateCountNormalized ==
    [][\A g \in Guilds, u \in Users :
          Len(allCalls'[g][u]) = Len(allCalls[g][u]) + 1 =>
              lastRet'[g][u][2] =
                  SumOver(tallied'[g][u],
                          { x \in DOMAIN tallied'[g][u] :
                                LoweredStrippedTruncated(x) =
                                    LoweredStrippedTruncated(ContentOfCall(g, u)) })]_vars

\* C31 witness: a call returned a duplicate count of 3 and a count inside the window
\* of 1: the two earlier calls are older than the window, and the three contents are
\* not all the same as sent
C31_Witness ==
    \E g \in Guilds, u \in Users :
        /\ lastRet[g][u] = <<1, 3>>
        /\ Len(allCalls[g][u]) = 3
        /\ Cardinality(DOMAIN tallied[g][u]) >= 2
        /\ SumOver(tallied[g][u], DOMAIN tallied[g][u]) = 3

(***************************************************************************)
(* SpecJoinWindow: record_join and get_recent_joins called on one          *)
(* RaidTracker with the window of raid_status and with a shorter           *)
(* join_window_seconds from the configuration file.                        *)
(***************************************************************************)
\* a call of RaidTracker.record_join(guild_id, member_id, is_suspicious)
RecordJoinCall(g, m, is_suspicious) ==
    /\ joins' = [joins EXCEPT ![g] = RecordJoin(@, now)]
    /\ suspicious' = [suspicious EXCEPT ![g] = RecordSuspicious(@, m, is_suspicious)]
    /\ recorded' = [recorded EXCEPT ![g] = Append(@, now)]
    /\ nJoins' = [nJoins EXCEPT ![g] = @ + 1]
    /\ UNCHANGED <<now, automodVars, cfgVars, lockdown, lockdownUntil, responding, joinTask,
                   config, raidStarts, releases, lastRaidCheck, lastJoins, lastSet, lastLockCheck,
                   nToggles>>

\* a call of RaidTracker.get_recent_joins(guild_id, seconds); it returns the length of
\* the list it stores
GetRecentJoinsCall(g, seconds) ==
    /\ joins' = [joins EXCEPT ![g] = RecentJoins(@, now, seconds)]
    /\ lastJoins' = [lastJoins EXCEPT ![g] = JoinQuery(joins[g], recorded[g], now, seconds)]
    /\ UNCHANGED <<now, automodVars, cfgVars, suspicious, lockdown, lockdownUntil, responding,
                   joinTask, config, raidStarts, releases, lastRaidCheck, lastSet,
                   lastLockCheck, nJoins, recorded, nToggles>>

\* the window of raid_status and a join_window_seconds of half a minute
JoinWindows == {RaidStatusWindow, 30}

JoinWindowTickSteps == {20}

NextJoinWindow ==
    \/ \E g \in HomeGuilds, m \in {1}, is_suspicious \in BOOLEAN :
           nJoins[g] < MaxWindowJoins /\ RecordJoinCall(g, m, is_suspicious)
    \/ \E g \in HomeGuilds, seconds \in JoinWindows : GetRecentJoinsCall(g, seconds)
    \/ \E d \in JoinWindowTickSteps :
           now + d <= MaxWindowClock /\ Tick(d) /\ UNCHANGED <<automodVars, raidVars, cfgVars>>

SpecJoinWindow == Init /\ [][NextJoinWindow]_vars

\* C32: whatever record_join and get_recent_joins calls came before, with whatever
\* windows, get_recent_joins(guild, s) returns the number of joins recorded for the
\* guild within the last s seconds
C32_ReturnsJoinsWithinWindow ==
    \A g \in Guilds : lastJoins[g].called => lastJoins[g].count = lastJoins[g].within

(***************************************************************************)
(* SpecSetPath: GuildConfig.set along dot paths that end at a leaf, that   *)
(* run through levels not yet there, and that run through a leaf.          *)
(***************************************************************************)
SetPathKeys ==
    { Dotted(<<K_roles, K_muted>>),
      Dotted(<<K_logs, K_admin, K_muted>>),
      Dotted(<<K_roles, K_muted, K_admin>>) }

SetPathValues == { PyNone, PyInt(5) }

NextSetPath ==
    \/ \E g \in HomeGuilds, key \in SetPathKeys, value \in SetPathValues, io \in IoOutcomes :
           nCfgOps < MaxSetPathOps /\ CfgSet(g, key, value, io)
    \/ \E g \in HomeGuilds : nCfgOps < MaxSetPathOps /\ CfgReload(g)

SpecSetPath == Init /\ [][NextSetPath]_vars

\* C33: every set call returns a boolean, whatever its dot path, and has created the
\* levels of the path, so that the value is found at the path right after the call;
\* this includes a path that runs through a value that is no mapping, as the None
\* under roles.muted
C33_SetReturnsForEveryPath ==
    lastCfgSet.called => (~lastCfgSet.raised /\ lastCfgSet.getNow)

(***************************************************************************)
(* SpecPerKey: two guilds.  The second guild is joined while the first is  *)
(* responding to a raid; once the responses are over, members of both      *)
(* guilds send identical messages while a transition of the first member   *)
(* is in progress.                                                         *)
(***************************************************************************)
RaidsOver == responding = {} /\ \A g \in Guilds : nJoins[g] = MaxPerKeyJoins

FirstKey == <<1, 1>>

OtherKeys == { <<1, 2>>, <<2, 1>> }

NextPerKey ==
    \/ \E key \in {FirstKey} \cup OtherKeys, c \in SpamContents :
           /\ RaidsOver
           /\ nMessages[key[1]][key[2]] < MaxPerKeyMessages
           /\ key \in OtherKeys => FirstKey \in processing
           /\ OnMessage(key[1], key[2], PlainMember, c)
    \/ \E t \in Tasks : DeleteDone(t, TRUE, "ok")
    \/ \E t \in Tasks : ActionDone(t, TRUE, "ok")
    \/ \E t \in Tasks : LogDone(t)
    \/ \E g \in Guilds, m \in CooldownMembers :
           /\ nJoins[g] < MaxPerKeyJoins
           /\ g \notin HomeGuilds => HomeGuilds \subseteq responding
           /\ MemberJoin(g, m, MemberAccounts[m])
    \/ \E t \in JoinTasks : EditDone(t, "done")
    \/ \E t \in JoinTasks : RaidLogDone(t, TRUE)
    \/ \E t \in JoinTasks : AlertDone(t)
    \/ \E t \in JoinTasks : SleepDone(t)
    \/ \E d \in CooldownTickSteps :
           /\ now + d <= MaxPerKeyClock /\ Sleeping # {}
           /\ Tick(d)
           /\ UNCHANGED <<automodVars, raidVars, cfgVars>>

SpecPerKey == Init /\ [][NextPerKey]_vars

\* the step leaves the transitions and markers of the other members as they are
KeepsOtherTransitions(g, u) ==
    /\ processing \ {<<g, u>>} \subseteq processing'
    /\ \A t \in Tasks : spamTask[t].pc # "idle" => spamTask'[t] = spamTask[t]

\* the step leaves the raid responses and markers of the other guilds as they are
KeepsOtherResponses(g) ==
    /\ responding \ {g} \subseteq responding'
    /\ \A t \in JoinTasks : joinTask[t].pc # "idle" => joinTask'[t] = joinTask[t]

\* C34: the markers are per key.  A message that brings its author to a threshold
\* while no transition of that author in that guild is in progress starts one,
\* whatever transitions of other members or guilds are in progress, and leaves those
\* as they are; a join that brings a guild that is neither locked down nor responding
\* to the join threshold starts a raid response for it, whatever other guilds are
\* responding, and leaves their responses as they are
C34_MarkersArePerKey ==
    [][/\ \A g \in Guilds, u \in Users :
              nMessages'[g][u] = nMessages[g][u] + 1 =>
                  /\ KeepsOtherTransitions(g, u)
                  /\ ( /\ \/ CountInWindow(g, u) >= spam_threshold
                           \/ DuplicateCount(g, u) >= duplicate_threshold
                        /\ <<g, u>> \notin processing )
                         => StartsTransition(g, u)
       /\ \A g \in Guilds :
              nJoins'[g] = nJoins[g] + 1 =>
                  /\ KeepsOtherResponses(g)
                  /\ ( /\ JoinsWithin(recorded'[g], now, join_window_seconds) >= join_threshold
                        /\ ~lockdown[g]
                        /\ g \notin responding )
                         => (g \in responding' /\ raidStarts'[g] = raidStarts[g] + 1)]_vars

\* C34 witness: the second guild started its raid response while the first was
\* responding, and transitions of two members are in progress at once, one of them a
\* member of the second guild
C34_Witness ==
    /\ \A g \in Guilds : raidStarts[g] = 1
    /\ {FirstKey, <<2, 1>>} \subseteq processing
    /\ \E t1 \in Tasks, t2 \in Tasks :
           /\ spamTask[t1].pc # "idle" /\ <<spamTask[t1].g, spamTask[t1].u>> = FirstKey
           /\ spamTask[t2].pc # "idle" /\ <<spamTask[t2].g, spamTask[t2].u>> = <<2, 1>>

\* C35: an is_locked_down call made after the end time of an active lockdown returns
\* False and clears both the flag and the end time, and in every reachable state a
\* guild that is not locked down has no end time
C35_InactiveLockdownHasNoEnd ==
    /\ [](\A g \in Guilds : ~lockdown[g] => lockdownUntil[g] = None)
    /\ [][\A g \in Guilds :
             ( /\ lastLockCheck'[g].made /\ lastLockCheck'[g] # lastLockCheck[g]
               /\ lockdown[g] /\ lockdownUntil[g] # None
               /\ lastLockCheck'[g].at > lockdownUntil[g][1] )
                => ( /\ ~lastLockCheck'[g].result
                     /\ ~lockdown'[g]
                     /\ lockdownUntil'[g] = None )]_vars

\* C35 witness: a lockdown of one minute was found expired by an is_locked_down call
\* made outside the periodic check, and the guild has neither flag nor end time since
C35_Witness ==
    \E g \in Guilds :
        /\ lastSet[g].called /\ lastSet[g].enabled /\ lastSet[g].minutes = Some(1)
        /\ lastLockCheck[g].made /\ ~lastLockCheck[g].sweep /\ ~lastLockCheck[g].result
        /\ lastLockCheck[g].at > LockdownEnd(lastSet[g].at, 1)
        /\ ~lockdown[g] /\ lockdownUntil[g] = None

(***************************************************************************)
(* SpecRejected: a lockdown of one minute enabled at second 0, the joins it *)
(* rejects, and the joins made before and after it.                        *)
(***************************************************************************)
RejectedMembers == {1, 5}

\* inside the lockdown, and the first second after its end
RejectedInstants == {30, 61}

NextRejected ==
    \/ \E g \in HomeGuilds, m \in RejectedMembers :
           /\ nJoins[g] < MaxRejectedJoins
           /\ IsSuspiciousAccount(MemberAccounts[m]) =>
                  Len(suspicious[g]) < MaxRejectedSuspicious
           /\ MemberJoin(g, m, MemberAccounts[m])
    \/ \E t \in JoinTasks : KickDone(t, TRUE)
    \/ \E t \in JoinTasks : RejectLogDone(t)
    \/ \E t \in JoinTasks : SuspLogDone(t)
    \/ \E t \in JoinTasks : EditDone(t, "done")
    \/ \E t \in JoinTasks : RaidLogDone(t, TRUE)
    \/ \E t \in JoinTasks : AlertDone(t)
    \/ \E g \in HomeGuilds : nToggles < 1 /\ now = 0 /\ ToggleLockdown(g, Some(1))
    \/ \E t \in RejectedInstants :
           t > now /\ Tick(t - now) /\ UNCHANGED <<automodVars, raidVars, cfgVars>>

SpecRejected == Init /\ [][NextRejected]_vars

\* the handler that starts in this step goes to the kick of the lockdown branch
RejectsJoin(t, g) ==
    /\ joinTask[t].pc = "idle"
    /\ joinTask'[t].pc = "kick" /\ joinTask'[t].g = g /\ joinTask'[t].sawLock

\* C36: the join is recorded before the lockdown is looked at: the step of a join that
\* lockdown rejects appends the join to the guild's joins and, when the account is
\* flagged, the member to the suspicious list, and the rejection that follows (kick,
\* log, return) leaves both as they are
C36_RejectedJoinIsRecorded ==
    [][\A g \in Guilds :
          /\ nJoins'[g] = nJoins[g] + 1 =>
                 /\ joins'[g] # <<>> /\ joins'[g][Len(joins'[g])] = now
                 /\ \A t \in JoinTasks :
                        RejectsJoin(t, g) =>
                            /\ joins'[g] = Append(joins[g], now)
                            /\ suspicious'[g] =
                                   IF joinTask'[t].susp
                                   THEN Append(suspicious[g], joinTask'[t].m)
                                   ELSE suspicious[g]
          /\ \A t \in JoinTasks :
                 ( /\ joinTask[t].g = g /\ joinTask[t].pc \in {"kick", "rejectLog"}
                   /\ joinTask'[t].pc \in {"rejectLog", "idle"}
                   /\ joinTask'[t] # joinTask[t] )
                    => (joins'[g] = joins[g] /\ suspicious'[g] = suspicious[g])]_vars

\* C36 witness: nine joins were made during the lockdown of one minute and rejected,
\* one of them flagged and still on the suspicious list; the first join after the end
\* of the lockdown counted ten joins in the window and started the raid response
C36_Witness ==
    \E g \in Guilds :
        /\ nJoins[g] = join_threshold
        /\ nToggles = 1
        /\ \A i \in 1..(join_threshold - 1) : recorded[g][i] = 30
        /\ \A t \in JoinTasks : joinTask[t].pc \notin {"kick", "rejectLog"}
        /\ recorded[g][join_threshold] = 61
        /\ lastRaidCheck[g].made /\ ~lastRaidCheck[g].sawLock
        /\ lastRaidCheck[g].count = join_threshold /\ lastRaidCheck[g].started
        /\ raidStarts[g] = 1
        /\ suspicious[g] # <<>>

(***************************************************************************)
(* SpecNotify: raid responses whose notifications (the log message, the    *)
(* DM to the owner) are sent or fail, and the cooldown that follows.       *)
(***************************************************************************)
NotifyStep(t) ==
    \/ \E ok \in BOOLEAN : KickDone(t, ok)
    \/ RejectLogDone(t)
    \/ \E outcome \in {"done", "Forbidden", "HTTPException"} : EditDone(t, outcome)
    \/ \E outcome \in SendOutcomes, owner \in BOOLEAN : RaidLogSent(t, outcome, owner)
    \/ \E outcome \in SendOutcomes : AlertSent(t, outcome)
    \/ SleepDone(t)

NotifyTick ==
    \E d \in CooldownTickSteps :
        /\ now + d <= MaxNotifyClock \/ Sleeping # {}
        /\ Tick(d)
        /\ UNCHANGED <<automodVars, raidVars, cfgVars>>

NextNotify ==
    \/ \E g \in HomeGuilds, m \in CooldownMembers :
           nJoins[g] < MaxNotifyJoins /\ MemberJoin(g, m, MemberAccounts[m])
    \/ \E t \in JoinTasks : NotifyStep(t)
    \/ NotifyTick

\* the event loop resumes every coroutine whose awaited call has returned, and time
\* passes
SpecNotify ==
    /\ Init
    /\ [][NextNotify]_vars
    /\ \A t \in JoinTasks : WF_vars(NotifyStep(t))
    /\ WF_vars(NotifyTick)

\* a notification of the response this handler runs could not be sent
NotifyFailed(t) == joinTask[t].pc # "idle" /\ joinTask[t].failed # {}

\* C37: a raid response whose log message or owner DM could not be sent has no
\* exception pending and goes on to its cooldown, which begins with 60 seconds to go;
\* the id of its guild is removed from the debounce set when the cooldown is over
C37_NotifyFailureSwallowed ==
    /\ [](\A t \in JoinTasks :
             NotifyFailed(t) =>
                 /\ joinTask[t].error = "none"
                 /\ joinTask[t].pc \in {"alert", "sleep"}
                 /\ joinTask[t].g \in responding)
    /\ [][\A t \in JoinTasks :
             (NotifyFailed(t) /\ joinTask'[t].pc = "idle") =>
                 /\ now >= joinTask[t].wake
                 /\ responding' = responding \ {joinTask[t].g}]_vars
    /\ \A g \in Guilds :
           (\E t \in JoinTasks : NotifyFailed(t) /\ joinTask[t].g = g) ~> (g \notin responding)

\* C37 witness: the response of a guild is in its cooldown after both its log message
\* and the DM to the owner failed
C37_Witness ==
    \E t \in JoinTasks :
        /\ joinTask[t].pc = "sleep" /\ joinTask[t].failed = {"log", "dm"}
        /\ joinTask[t].g \in responding
        /\ now >= joinTask[t].wake

(***************************************************************************)
(* SpecKickCommand: joins of clean and flagged accounts, the raid response *)
(* with and without kick_suspicious_on_raid, and the kicksuspicious        *)
(* command.                                                                *)
(***************************************************************************)
NextKickCommand ==
    \/ \E g \in HomeGuilds, m \in ResponseMembers :
           /\ nJoins[g] < MaxCommandJoins
           /\ IsSuspiciousAccount(MemberAccounts[m]) =>
                  Len(suspicious[g]) < MaxCommandSuspicious
           /\ MemberJoin(g, m, MemberAccounts[m])
    \/ \E t \in JoinTasks : SuspLogDone(t)
    \/ \E t \in JoinTasks : EditDone(t, "done")
    \/ \E t \in JoinTasks, outcome \in KickOutcomes : KickSuspiciousDone(t, outcome)
    \/ \E t \in JoinTasks : RaidLogDone(t, FALSE)
    \/ \E g \in HomeGuilds : KickSuspiciousCommand(g)
    \/ \E t \in JoinTasks, reaction \in ConfirmReactions : ConfirmDone(t, reaction)
    \/ \E t \in JoinTasks, outcome \in KickOutcomes : CommandKickDone(t, outcome)
    \/ \E t \in JoinTasks : CommandResultDone(t)

SpecKickCommand == InitResponse /\ [][NextKickCommand]_vars

\* C38: every member id that a clear_suspicious call removes from the list, in the
\* raid response or in the kicksuspicious command, was gone through by the loop that
\* precedes the call: member.kick was awaited for it, or get_member found nobody;
\* no id flagged while the loop or the confirmation prompt was suspended is dropped
C38_ClearedOnlyAfterKickAttempt ==
    [][\A t \in JoinTasks :
          (~joinTask[t].cleared /\ joinTask'[t].cleared) =>
              Ids(suspicious[joinTask[t].g]) \subseteq
                  joinTask'[t].kicks \cup joinTask'[t].gone]_vars

\* the warnings of the member, as get_warning_count would read them before and after
\* the step
WarningsBefore(g, u) == CountOf(LoadedWarnings(g), u)

WarningsAfter(g, u) ==
    CountOf(IF g \in wLoaded' THEN warnings'[g] ELSE LoadGuildWarnings(disk'[g]), u)

\* the transitions of the member that have called add_warning or are about to
TransitionsStarted(g, u) ==
    punished[g][u].n
        + Cardinality({ t \in InFlight(g, u) : spamTask[t].pc # "log" })

\* the step takes a transition of the member from the delete through add_warning
AddsWarning(t, g, u) ==
    /\ spamTask[t].pc = "delete" /\ spamTask[t].g = g /\ spamTask[t].u = u
    /\ spamTask'[t].pc \in {"ban", "kick", "timeout"}

\* C39: a message adds at most one warning to its author.  A message makes at most one
\* _handle_spam call, the one of the frequency branch when both thresholds are met; so
\* the member never has more transitions than messages; and a transition adds exactly
\* one warning, at its add_warning, while no other step of the cog adds one
C39_OneWarningPerMessage ==
    /\ [](\A g \in Guilds, u \in Users :
             /\ TransitionsStarted(g, u) <= nMessages[g][u]
             /\ \A t \in InFlight(g, u) : Len(spamTask[t].reasons) = 1)
    /\ [][\A g \in Guilds, u \in Users :
             /\ nMessages'[g][u] = nMessages[g][u] + 1 =>
                    /\ WarningsAfter(g, u) = WarningsBefore(g, u)
                    /\ \A t \in Tasks :
                           (spamTask[t].pc = "idle" /\ spamTask'[t].pc # "idle") =>
                               /\ spamTask'[t].pc = "delete"
                               /\ spamTask'[t].reasons =
                                      IF spamTask'[t].counts[1] >= spam_threshold
                                      THEN <<"Message spam">>
                                      ELSE <<"Duplicate message spam">>
                               /\ spamTask'[t].counts = lastRet'[g][u]
             /\ \A t \in Tasks :
                    AddsWarning(t, g, u) => WarningsAfter(g, u) = WarningsBefore(g, u) + 1
             /\ (WarningsAfter(g, u) > WarningsBefore(g, u) /\ nCommands' = nCommands) =>
                    \E t \in Tasks : AddsWarning(t, g, u)]_vars

\* C39 witness: a message that met both thresholds began a transition, under the
\* reason of the frequency branch, and the transition has added its one warning
C39_Witness ==
    \E t \in Tasks :
        LET g == spamTask[t].g
            u == spamTask[t].u
        IN  /\ spamTask[t].pc \in {"ban", "kick", "timeout"}
            /\ spamTask[t].reasons = <<"Message spam">>
            /\ spamTask[t].counts[1] >= spam_threshold
            /\ spamTask[t].counts[2] >= duplicate_threshold
            /\ spamTask[t].count = spamTask[t].prior + 1

=============================================================================
